---- MODULE Spec2Model ----
(***************************************************************************)
(* A model of the bar-driven backtest engine of alpha-trend-backtest:      *)
(* the trade lifecycle state machine (backtest/core/trade_manager.py) and  *)
(* the per-symbol simulation loop (backtest/core/backtest_engine.py) with  *)
(* the indicators it feeds (core/atr.py, regime_classifier.py,             *)
(* signal_engine.py), each indicator also driven on its own by a client,   *)
(* and the aggregation of tick files to minute bars                        *)
(* (backtest/core/data_loader.py).                                         *)
(*                                                                         *)
(* Prices, ATR values and multipliers are Python floats in the source.     *)
(* They are modelled as exact rationals <<n, d>> (d > 0, lowest terms), so *)
(* that means, Wilder smoothing, progress fractions and R-multiples are    *)
(* computed as the code computes them, without floating-point rounding.    *)
(* Python's None is the empty sequence <<>>; an optional value is a        *)
(* sequence of length at most one.                                         *)
(***************************************************************************)
EXTENDS Integers, Sequences, FiniteSets, TLC

VARIABLES
    p,          \* TradeManager.p: the ExitParams of this run
    active,     \* TradeManager.active: <<>> (None) or <<Trade>>
    ret,        \* value returned by the last TradeManager call: <<>> or <<Trade>>
    err,        \* "" or the exception that aborted the run
    last,       \* the TradeManager call in progress: its name, arguments and
                \* the manager's active slot before the call
    pc,         \* position of the caller
    cfg,        \* run_symbol: the parameters read from the YAML config
    bar,        \* run_symbol: the loop variables ts, o, h, l, c (<<>> before
                \* the first bar)
    atr_est,    \* run_symbol: the ATR instance `atr`
    regime,     \* run_symbol: the SlopeRegime instance
    signal,     \* run_symbol: the PullbackResumption instance
    trades,     \* run_symbol: the list of trade records written so far
    row,        \* run_symbol: the timeline row appended for the current bar
    calls,      \* the calls a client made on one indicator instance, in
                \* order: the arguments and what each call returned
    rows_read,  \* _iter_ticks_aggregated_1m: the rows of the file read so far
    cur_min,    \* _iter_ticks_aggregated_1m: cur_min, <<>> (None) or <<minute>>
    acc,        \* _iter_ticks_aggregated_1m: the locals o, h, l, c, vol
    yielded,    \* _iter_ticks_aggregated_1m: the bars yielded so far
    window,     \* iter_symbol_bars: start_ep and end_ep, each <<>> (None) or
                \* <<epoch second>>
    files,      \* iter_symbol_bars: the files find_symbol_csvs returned, each
                \* with the rows read from it so far
    fp,         \* iter_symbol_bars: the number of the file being read (0
                \* before the first)
    stream,     \* iter_symbol_bars: the bars yielded so far
    wf          \* run_backtest.main in walk-forward mode: the --walkforward
                \* argument, the WFSpec and the locals of build_wf_windows

loopvars == <<cfg, bar, atr_est, regime, signal, trades, row>>
tickvars == <<rows_read, cur_min, acc, yielded>>
streamvars == <<window, files, fp, stream>>
vars == <<p, active, ret, err, last, pc, cfg, bar, atr_est, regime, signal, trades, row,
          calls, rows_read, cur_min, acc, yielded, window, files, fp, stream, wf>>

\* No file of a symbol directory is being read.
NoStream == window = <<>> /\ files = <<>> /\ fp = 0 /\ stream = <<>>

(***************************************************************************)
(* Exact rational arithmetic.                                              *)
(***************************************************************************)
Abs(x) == IF x < 0 THEN -x ELSE x

RECURSIVE GCD(_, _)
GCD(a, b) == IF b = 0 THEN a ELSE GCD(b, a % b)

Rat(n, d) ==
    LET g == GCD(Abs(n), Abs(d))
        s == IF d < 0 THEN -1 ELSE 1
    IN  <<(s * n) \div g, (s * d) \div g>>

RInt(n) == <<n, 1>>
RZero == RInt(0)
RAdd(a, b) == Rat(a[1] * b[2] + b[1] * a[2], a[2] * b[2])
RSub(a, b) == Rat(a[1] * b[2] - b[1] * a[2], a[2] * b[2])
RMul(a, b) == Rat(a[1] * b[1], a[2] * b[2])
RDiv(a, b) == Rat(a[1] * b[2], a[2] * b[1])
RAbs(a) == <<Abs(a[1]), a[2]>>
RLt(a, b) == a[1] * b[2] < b[1] * a[2]
RLe(a, b) == a[1] * b[2] <= b[1] * a[2]
RGt(a, b) == RLt(b, a)
RGe(a, b) == RLe(b, a)
RMax(a, b) == IF RGe(a, b) THEN a ELSE b
RMin(a, b) == IF RLe(a, b) THEN a ELSE b

(***************************************************************************)
(* Bounds of the model and the inputs drawn from them.                     *)
(***************************************************************************)
MaxPrice == 4      \* prices are the integers 0..MaxPrice
MaxAtr == 4        \* ATR arguments are the halves 0, 1/2, ..., MaxAtr/2

Prices == 0..MaxPrice
AtrVals == {Rat(k, 2) : k \in 0..MaxAtr}
Sides == {"LONG", "SHORT"}
OpenTs == {1}
BarTs == {2}
Qtys == {1}

\* Well-formed bars: low <= close <= high.
Bars == {b \in [high : Prices, low : Prices, close : Prices] :
            b.low <= b.close /\ b.close <= b.high}

\* ExitParams instances the manager is constructed with.
ExitParamsSet ==
    { [atr_mult_sl |-> RInt(1), atr_mult_tp |-> RInt(2),
       breakeven_progress |-> Rat(1, 2), tsl_step_atr_mult |-> RInt(1)],
      [atr_mult_sl |-> RInt(2), atr_mult_tp |-> RInt(1),
       breakeven_progress |-> RZero, tsl_step_atr_mult |-> RInt(2)] }

(***************************************************************************)
(* Trade and TradeManager (trade_manager.py).                              *)
(***************************************************************************)
Trade(side, entry_ts, entry_price, sl, tp, size) ==
    [side |-> side, entry_ts |-> entry_ts, entry_price |-> entry_price,
     sl |-> sl, tp |-> tp, size |-> size,
     be_moved |-> FALSE, tsl_active |-> FALSE, tsl_step |-> RZero,
     exit_ts |-> 0, exit_price |-> RZero, exit_reason |-> "", R |-> RZero]

\* Mutant of TM_open: the stop distance is taken from the target multiplier.
TM_open_StopFromTarget(ep, ts, side, price, atr, qty) ==
    LET sl_dist == RMul(ep.atr_mult_tp, atr)
        tp_dist == RMul(ep.atr_mult_tp, atr)
    IN  IF side = "LONG"
        THEN Trade(side, ts, price, RSub(price, sl_dist), RAdd(price, tp_dist), qty)
        ELSE Trade(side, ts, price, RAdd(price, sl_dist), RSub(price, tp_dist), qty)

\* TradeManager.open: the Trade it constructs and stores in self.active.
TM_open(ep, ts, side, price, atr, qty) ==
    LET sl_dist == RMul(ep.atr_mult_sl, atr)
        tp_dist == RMul(ep.atr_mult_tp, atr)
    IN  IF side = "LONG"
        THEN Trade(side, ts, price, RSub(price, sl_dist), RAdd(price, tp_dist), qty)
        ELSE Trade(side, ts, price, RAdd(price, sl_dist), RSub(price, tp_dist), qty)

\* TradeManager._progress
TM_progress(price, t) ==
    IF t.side = "LONG"
    THEN IF RGt(RSub(t.tp, t.entry_price), RZero)
         THEN RDiv(RSub(price, t.entry_price), RSub(t.tp, t.entry_price))
         ELSE RZero
    ELSE IF RGt(RSub(t.entry_price, t.tp), RZero)
         THEN RDiv(RSub(t.entry_price, price), RSub(t.entry_price, t.tp))
         ELSE RZero

\* Mutant of StopLabel: a stop hit is labelled SL whatever tsl_active is.
StopLabel_AlwaysSL(t) == "SL"

\* The label of a stop hit: "SL" if not t.tsl_active else "TSL".
StopLabel(t) == IF ~t.tsl_active THEN "SL" ELSE "TSL"

\* The label of a take-profit hit.
TargetLabel(t) == "TSL"

\* LONG: low <= t.sl; SHORT: high >= t.sl.
StopHit(t, high, low) ==
    IF t.side = "LONG" THEN RLe(low, t.sl) ELSE RGe(high, t.sl)

\* LONG: high >= t.tp; SHORT: low <= t.tp.
TargetHit(t, high, low) ==
    IF t.side = "LONG" THEN RGe(high, t.tp) ELSE RLe(low, t.tp)

\* Mutant of ExitCheck: the target is tested before the stop.
ExitCheck_TargetFirst(t, ts, high, low) ==
    IF TargetHit(t, high, low)
    THEN [t EXCEPT !.exit_ts = ts, !.exit_price = t.tp, !.exit_reason = TargetLabel(t)]
    ELSE IF StopHit(t, high, low)
         THEN [t EXCEPT !.exit_ts = ts, !.exit_price = t.sl,
                        !.exit_reason = StopLabel(t)]
         ELSE t

\* on_bar, exit checks: stop first, then target, against the levels of t.
ExitCheck(t, ts, high, low) ==
    IF StopHit(t, high, low)
    THEN [t EXCEPT !.exit_ts = ts, !.exit_price = t.sl, !.exit_reason = StopLabel(t)]
    ELSE IF TargetHit(t, high, low)
         THEN [t EXCEPT !.exit_ts = ts, !.exit_price = t.tp,
                        !.exit_reason = TargetLabel(t)]
         ELSE t

\* Mutant of RMultiple: the P&L is exit - entry for both sides.
RMultiple_Unsigned(t, sl_dist_abs) ==
    RDiv(RSub(t.exit_price, t.entry_price), sl_dist_abs)

\* on_bar, the R-multiple of a Trade whose exit fields are set
\* (sl_dist_abs # 0).
RMultiple(t, sl_dist_abs) ==
    IF t.side = "LONG"
    THEN RDiv(RSub(t.exit_price, t.entry_price), sl_dist_abs)
    ELSE RDiv(RSub(t.entry_price, t.exit_price), sl_dist_abs)

\* Mutant of TslStep: the step is not gated by be_moved.
TslStep_NoGate(ep, t, close, atr) ==
    IF t.side = "LONG"
    THEN IF RGe(close, RAdd(t.entry_price, RMul(ep.tsl_step_atr_mult, atr)))
         THEN [t EXCEPT !.tsl_active = TRUE,
                 !.sl = RMax(t.sl, RSub(close, RMul(ep.tsl_step_atr_mult, atr)))]
         ELSE t
    ELSE IF RLe(close, RSub(t.entry_price, RMul(ep.tsl_step_atr_mult, atr)))
         THEN [t EXCEPT !.tsl_active = TRUE,
                 !.sl = RMin(t.sl, RAdd(close, RMul(ep.tsl_step_atr_mult, atr)))]
         ELSE t

\* Mutant of TslStep: the stop is set to the new level without max/min.
TslStep_NoRatchet(ep, t, close, atr) ==
    IF t.be_moved
    THEN IF t.side = "LONG"
         THEN IF RGe(close, RAdd(t.entry_price, RMul(ep.tsl_step_atr_mult, atr)))
              THEN [t EXCEPT !.tsl_active = TRUE,
                      !.sl = RSub(close, RMul(ep.tsl_step_atr_mult, atr))]
              ELSE t
         ELSE IF RLe(close, RSub(t.entry_price, RMul(ep.tsl_step_atr_mult, atr)))
              THEN [t EXCEPT !.tsl_active = TRUE,
                      !.sl = RAdd(close, RMul(ep.tsl_step_atr_mult, atr))]
              ELSE t
    ELSE t

\* Mutant of TslStep: the close must be strictly beyond the target.
TslStep_StrictTarget(ep, t, close, atr) ==
    IF t.be_moved
    THEN IF t.side = "LONG"
         THEN IF RGt(close, RAdd(t.entry_price, RMul(ep.tsl_step_atr_mult, atr)))
              THEN [t EXCEPT !.tsl_active = TRUE,
                      !.sl = RMax(t.sl, RSub(close, RMul(ep.tsl_step_atr_mult, atr)))]
              ELSE t
         ELSE IF RLt(close, RSub(t.entry_price, RMul(ep.tsl_step_atr_mult, atr)))
              THEN [t EXCEPT !.tsl_active = TRUE,
                      !.sl = RMin(t.sl, RAdd(close, RMul(ep.tsl_step_atr_mult, atr)))]
              ELSE t
    ELSE t

\* Mutant of TslStep: a Trade that starts trailing loses its breakeven flag.
TslStep_ClearsBreakeven(ep, t, close, atr) ==
    IF t.be_moved
    THEN IF t.side = "LONG"
         THEN LET target == RAdd(t.entry_price, RMul(ep.tsl_step_atr_mult, atr))
              IN  IF RGe(close, target)
                  THEN [t EXCEPT !.tsl_active = TRUE, !.be_moved = FALSE,
                          !.sl = RMax(t.sl, RSub(close, RMul(ep.tsl_step_atr_mult, atr)))]
                  ELSE t
         ELSE LET target == RSub(t.entry_price, RMul(ep.tsl_step_atr_mult, atr))
              IN  IF RLe(close, target)
                  THEN [t EXCEPT !.tsl_active = TRUE, !.be_moved = FALSE,
                          !.sl = RMin(t.sl, RAdd(close, RMul(ep.tsl_step_atr_mult, atr)))]
                  ELSE t
    ELSE t

\* on_bar, TSL stepping.
TslStep(ep, t, close, atr) ==
    IF t.be_moved
    THEN IF t.side = "LONG"
         THEN LET target == RAdd(t.entry_price, RMul(ep.tsl_step_atr_mult, atr))
              IN  IF RGe(close, target)
                  THEN [t EXCEPT !.tsl_active = TRUE,
                          !.sl = RMax(t.sl, RSub(close, RMul(ep.tsl_step_atr_mult, atr)))]
                  ELSE t
         ELSE LET target == RSub(t.entry_price, RMul(ep.tsl_step_atr_mult, atr))
              IN  IF RLe(close, target)
                  THEN [t EXCEPT !.tsl_active = TRUE,
                          !.sl = RMin(t.sl, RAdd(close, RMul(ep.tsl_step_atr_mult, atr)))]
                  ELSE t
    ELSE t

\* Mutant of BreakevenMove: progress must exceed the fraction strictly.
BreakevenMove_Strict(ep, t, close) ==
    IF ~t.be_moved
    THEN IF RGt(TM_progress(close, t), ep.breakeven_progress)
         THEN [t EXCEPT !.be_moved = TRUE, !.sl = t.entry_price]
         ELSE t
    ELSE t

\* Mutant of BreakevenMove: the flag is set but the stop is not moved.
BreakevenMove_FlagOnly(ep, t, close) ==
    IF ~t.be_moved
    THEN IF RGe(TM_progress(close, t), ep.breakeven_progress)
         THEN [t EXCEPT !.be_moved = TRUE]
         ELSE t
    ELSE t

\* on_bar, breakeven move.
BreakevenMove(ep, t, close) ==
    IF ~t.be_moved
    THEN IF RGe(TM_progress(close, t), ep.breakeven_progress)
         THEN [t EXCEPT !.be_moved = TRUE, !.sl = t.entry_price]
         ELSE t
    ELSE t

\* Mutant of TM_on_bar: the trailing step and the breakeven check run before
\* the exit check, also in a call that closes the Trade.
TM_on_bar_UpdatesBeforeExit(ep, act, ts, high, low, close, atr) ==
    IF act = <<>>
    THEN [active |-> <<>>, ret |-> <<>>, err |-> ""]
    ELSE LET u == BreakevenMove(ep, TslStep(ep, act[1], close, atr), close)
             t == ExitCheck([u EXCEPT !.sl = act[1].sl], ts, high, low)
         IN  IF t.exit_reason # ""
             THEN LET sl_dist_abs == RAbs(RMul(ep.atr_mult_sl, atr))
                  IN  IF sl_dist_abs = RZero
                      THEN [active |-> <<t>>, ret |-> <<>>,
                            err |-> "ZeroDivisionError"]
                      ELSE [active |-> <<>>,
                            ret |-> <<[t EXCEPT !.R = RMultiple(t, sl_dist_abs)]>>,
                            err |-> ""]
             ELSE [active |-> <<[t EXCEPT !.sl = u.sl]>>, ret |-> <<>>, err |-> ""]

\* TradeManager.on_bar as a function of the manager's state and the
\* arguments: the new active slot, the returned value and the exception
\* raised (float division by zero raises ZeroDivisionError, after the exit
\* fields were already written to the still-active Trade).
TM_on_bar(ep, act, ts, high, low, close, atr) ==
    IF act = <<>>
    THEN [active |-> <<>>, ret |-> <<>>, err |-> ""]
    ELSE LET t == ExitCheck(act[1], ts, high, low)
         IN  IF t.exit_reason # ""
             THEN LET sl_dist_abs == RAbs(RMul(ep.atr_mult_sl, atr))
                  IN  IF sl_dist_abs = RZero
                      THEN [active |-> <<t>>, ret |-> <<>>,
                            err |-> "ZeroDivisionError"]
                      ELSE [active |-> <<>>,
                            ret |-> <<[t EXCEPT !.R = RMultiple(t, sl_dist_abs)]>>,
                            err |-> ""]
             ELSE [active |-> <<BreakevenMove(ep, TslStep(ep, t, close, atr), close)>>,
                   ret |-> <<>>, err |-> ""]

NoCall == [op |-> "none", ts |-> 0, high |-> RZero, low |-> RZero,
           close |-> RZero, atr |-> RZero, pre |-> <<>>]

(***************************************************************************)
(* SpecTM: a client drives one TradeManager through its public methods     *)
(* with arbitrary arguments, as the unit tests do.  The caller is "idle"   *)
(* between calls and at "returned" when a call has returned and its result *)
(* is at hand.  An exception ends the run (nothing in the repository       *)
(* catches it).                                                            *)
(***************************************************************************)
InitTM ==
    /\ p \in ExitParamsSet
    /\ active = <<>>
    /\ ret = <<>>
    /\ err = ""
    /\ last = NoCall
    /\ pc = "idle"
    /\ cfg = <<>> /\ bar = <<>> /\ atr_est = <<>> /\ regime = <<>> /\ signal = <<>>
    /\ trades = <<>> /\ row = <<>>
    /\ calls = <<>>
    /\ rows_read = <<>> /\ cur_min = <<>> /\ acc = <<>> /\ yielded = <<>>
    /\ NoStream /\ wf = <<>>

CallOpen ==
    /\ pc = "idle"
    /\ \E ts \in OpenTs, side \in Sides, price \in Prices, atr \in AtrVals, qty \in Qtys :
          \E t \in {TM_open(p, ts, side, RInt(price), atr, RInt(qty))} :
              /\ active' = <<t>>
              /\ ret' = <<t>>
              /\ last' = [op |-> "open", ts |-> ts, high |-> RInt(price),
                          low |-> RInt(price), close |-> RInt(price),
                          atr |-> atr, pre |-> active]
    /\ pc' = "returned"
    /\ UNCHANGED <<p, err>>
    /\ UNCHANGED loopvars
    /\ UNCHANGED <<calls, tickvars>>
    /\ UNCHANGED <<streamvars, wf>>

CallOnBar ==
    /\ pc = "idle"
    /\ \E ts \in BarTs, b \in Bars, atr \in AtrVals :
          \E r \in {TM_on_bar(p, active, ts, RInt(b.high), RInt(b.low),
                              RInt(b.close), atr)} :
              /\ active' = r.active
              /\ ret' = r.ret
              /\ err' = r.err
              /\ last' = [op |-> "on_bar", ts |-> ts, high |-> RInt(b.high),
                          low |-> RInt(b.low), close |-> RInt(b.close),
                          atr |-> atr, pre |-> active]
              /\ pc' = IF r.err = "" THEN "returned" ELSE "raised"
    /\ UNCHANGED p
    /\ UNCHANGED loopvars
    /\ UNCHANGED <<calls, tickvars>>
    /\ UNCHANGED <<streamvars, wf>>

\* The caller takes the result and goes on to its next call.
Return ==
    /\ pc = "returned"
    /\ pc' = "idle"
    /\ ret' = <<>>
    /\ last' = NoCall
    /\ UNCHANGED <<p, active, err>>
    /\ UNCHANGED loopvars
    /\ UNCHANGED <<calls, tickvars>>
    /\ UNCHANGED <<streamvars, wf>>

NextTM == CallOpen \/ CallOnBar \/ Return

SpecTM == InitTM /\ [][NextTM]_vars

(***************************************************************************)
(* The indicators (core/atr.py, regime_classifier.py, signal_engine.py).   *)
(***************************************************************************)
RECURSIVE RSum(_)
RSum(q) == IF q = <<>> THEN RZero ELSE RAdd(q[1], RSum(Tail(q)))

\* collections.deque(maxlen = n).append
DequeAppend(q, x, n) ==
    IF n = 0 THEN <<>>
    ELSE IF Len(q) = n THEN Append(Tail(q), x) ELSE Append(q, x)

\* ATR.__init__
ATR_init(period) ==
    [period |-> period, trs |-> <<>>, prev_close |-> <<>>, atr |-> <<>>]

\* Mutant of ATR_tr: a missing previous close is taken as 0.0.
ATR_tr_PrevCloseZero(h, l, c_prev) ==
    LET cp == IF c_prev = <<>> THEN RZero ELSE c_prev[1]
    IN  RMax(RMax(RSub(h, l), RAbs(RSub(h, cp))), RAbs(RSub(l, cp)))

\* ATR._tr
ATR_tr(h, l, c_prev) ==
    IF c_prev = <<>>
    THEN RSub(h, l)
    ELSE RMax(RMax(RSub(h, l), RAbs(RSub(h, c_prev[1]))), RAbs(RSub(l, c_prev[1])))

\* Mutant of ATR_update: the first value is produced one update early.
ATR_update_EarlyReady(a, o, h, l, c) ==
    LET tr == ATR_tr(h, l, a.prev_close)
    IN  IF a.atr = <<>>
        THEN LET trs == DequeAppend(a.trs, tr, a.period)
             IN  [a EXCEPT !.prev_close = <<c>>, !.trs = trs,
                           !.atr = IF Len(trs) >= a.period - 1
                                   THEN <<RDiv(RSum(trs), RInt(a.period))>>
                                   ELSE <<>>]
        ELSE [a EXCEPT !.prev_close = <<c>>,
                       !.atr = <<RDiv(RAdd(RMul(a.atr[1], RInt(a.period - 1)), tr),
                                      RInt(a.period))>>]

\* ATR.update: the instance after the call (ATR.value is its atr field).
ATR_update(a, o, h, l, c) ==
    LET tr == ATR_tr(h, l, a.prev_close)
    IN  IF a.atr = <<>>
        THEN LET trs == DequeAppend(a.trs, tr, a.period)
             IN  [a EXCEPT !.prev_close = <<c>>, !.trs = trs,
                           !.atr = IF Len(trs) = a.period
                                   THEN <<RDiv(RSum(trs), RInt(a.period))>>
                                   ELSE <<>>]
        ELSE [a EXCEPT !.prev_close = <<c>>,
                       !.atr = <<RDiv(RAdd(RMul(a.atr[1], RInt(a.period - 1)), tr),
                                      RInt(a.period))>>]

\* SlopeRegime.__init__
SlopeRegime_init(n_short, n_long) ==
    [n_short |-> n_short, n_long |-> n_long, buf_s |-> <<>>, buf_l |-> <<>>,
     regime |-> "FLAT"]

\* Mutant of SlopeRegime_update: the label is computed from the first update
\* on, without waiting for the long window to fill.
SlopeRegime_update_NoWarmUp(g, price) ==
    LET bs == DequeAppend(g.buf_s, price, g.n_short)
        bl == DequeAppend(g.buf_l, price, g.n_long)
        ma_s == RDiv(RSum(bs), RInt(Len(bs)))
        ma_l == RDiv(RSum(bl), RInt(Len(bl)))
    IN  [g EXCEPT !.buf_s = bs, !.buf_l = bl,
                  !.regime = IF RGt(ma_s, ma_l) THEN "UP"
                             ELSE IF RLt(ma_s, ma_l) THEN "DOWN"
                             ELSE "FLAT"]

\* SlopeRegime.update: the instance after the call (the returned label is
\* its regime field).
SlopeRegime_update(g, price) ==
    LET bs == DequeAppend(g.buf_s, price, g.n_short)
        bl == DequeAppend(g.buf_l, price, g.n_long)
        ma_s == RDiv(RSum(bs), RInt(Len(bs)))
        ma_l == RDiv(RSum(bl), RInt(Len(bl)))
    IN  [g EXCEPT !.buf_s = bs, !.buf_l = bl,
                  !.regime = IF Len(bl) < g.n_long THEN "FLAT"
                             ELSE IF RGt(ma_s, ma_l) THEN "UP"
                             ELSE IF RLt(ma_s, ma_l) THEN "DOWN"
                             ELSE "FLAT"]

\* PullbackResumption.__init__
PullbackResumption_init(ma_lookback) ==
    [lookback |-> ma_lookback, buf |-> <<>>, pullback_seen |-> FALSE]

\* Mutant of PullbackResumption_on_bar: a FLAT call (or a window not yet
\* full) leaves the pullback-seen flag as it is.
PullbackResumption_on_bar_FlatKeepsFlag(sg, price, reg) ==
    LET buf == DequeAppend(sg.buf, price, sg.lookback)
        s1 == [sg EXCEPT !.buf = buf]
        ma == IF Len(buf) < sg.lookback THEN <<>>
              ELSE <<RDiv(RSum(buf), RInt(Len(buf)))>>
    IN  IF ma = <<>> \/ reg = "FLAT"
        THEN [st |-> s1, out |-> <<>>]
        ELSE IF reg = "UP"
        THEN IF RLt(price, ma[1])
             THEN [st |-> [s1 EXCEPT !.pullback_seen = TRUE], out |-> <<>>]
             ELSE IF s1.pullback_seen /\ RGe(price, ma[1])
                  THEN [st |-> [s1 EXCEPT !.pullback_seen = FALSE], out |-> <<"LONG">>]
                  ELSE [st |-> s1, out |-> <<>>]
        ELSE IF reg = "DOWN"
        THEN IF RGt(price, ma[1])
             THEN [st |-> [s1 EXCEPT !.pullback_seen = TRUE], out |-> <<>>]
             ELSE IF s1.pullback_seen /\ RLe(price, ma[1])
                  THEN [st |-> [s1 EXCEPT !.pullback_seen = FALSE], out |-> <<"SHORT">>]
                  ELSE [st |-> s1, out |-> <<>>]
        ELSE [st |-> s1, out |-> <<>>]

\* Mutant of PullbackResumption_on_bar: emitting a signal does not clear the
\* pullback-seen flag.
PullbackResumption_on_bar_FireKeepsFlag(sg, price, reg) ==
    LET buf == DequeAppend(sg.buf, price, sg.lookback)
        s1 == [sg EXCEPT !.buf = buf]
        ma == IF Len(buf) < sg.lookback THEN <<>>
              ELSE <<RDiv(RSum(buf), RInt(Len(buf)))>>
    IN  IF ma = <<>> \/ reg = "FLAT"
        THEN [st |-> [s1 EXCEPT !.pullback_seen = FALSE], out |-> <<>>]
        ELSE IF reg = "UP"
        THEN IF RLt(price, ma[1])
             THEN [st |-> [s1 EXCEPT !.pullback_seen = TRUE], out |-> <<>>]
             ELSE IF s1.pullback_seen /\ RGe(price, ma[1])
                  THEN [st |-> s1, out |-> <<"LONG">>]
                  ELSE [st |-> s1, out |-> <<>>]
        ELSE IF reg = "DOWN"
        THEN IF RGt(price, ma[1])
             THEN [st |-> [s1 EXCEPT !.pullback_seen = TRUE], out |-> <<>>]
             ELSE IF s1.pullback_seen /\ RLe(price, ma[1])
                  THEN [st |-> s1, out |-> <<"SHORT">>]
                  ELSE [st |-> s1, out |-> <<>>]
        ELSE [st |-> s1, out |-> <<>>]

\* Mutant of PullbackResumption_on_bar: the DOWN branch returns "LONG".
PullbackResumption_on_bar_DownEmitsLong(sg, price, reg) ==
    LET buf == DequeAppend(sg.buf, price, sg.lookback)
        s1 == [sg EXCEPT !.buf = buf]
        ma == IF Len(buf) < sg.lookback THEN <<>>
              ELSE <<RDiv(RSum(buf), RInt(Len(buf)))>>
    IN  IF ma = <<>> \/ reg = "FLAT"
        THEN [st |-> [s1 EXCEPT !.pullback_seen = FALSE], out |-> <<>>]
        ELSE IF reg = "UP"
        THEN IF RLt(price, ma[1])
             THEN [st |-> [s1 EXCEPT !.pullback_seen = TRUE], out |-> <<>>]
             ELSE IF s1.pullback_seen /\ RGe(price, ma[1])
                  THEN [st |-> [s1 EXCEPT !.pullback_seen = FALSE], out |-> <<"LONG">>]
                  ELSE [st |-> s1, out |-> <<>>]
        ELSE IF reg = "DOWN"
        THEN IF RGt(price, ma[1])
             THEN [st |-> [s1 EXCEPT !.pullback_seen = TRUE], out |-> <<>>]
             ELSE IF s1.pullback_seen /\ RLe(price, ma[1])
                  THEN [st |-> [s1 EXCEPT !.pullback_seen = FALSE], out |-> <<"LONG">>]
                  ELSE [st |-> s1, out |-> <<>>]
        ELSE [st |-> s1, out |-> <<>>]

\* PullbackResumption.on_bar (with update_ma): the instance after the call
\* and the returned signal, <<>> for None.
PullbackResumption_on_bar(sg, price, reg) ==
    LET buf == DequeAppend(sg.buf, price, sg.lookback)
        s1 == [sg EXCEPT !.buf = buf]
        ma == IF Len(buf) < sg.lookback THEN <<>>
              ELSE <<RDiv(RSum(buf), RInt(Len(buf)))>>
    IN  IF ma = <<>> \/ reg = "FLAT"
        THEN [st |-> [s1 EXCEPT !.pullback_seen = FALSE], out |-> <<>>]
        ELSE IF reg = "UP"
        THEN IF RLt(price, ma[1])
             THEN [st |-> [s1 EXCEPT !.pullback_seen = TRUE], out |-> <<>>]
             ELSE IF s1.pullback_seen /\ RGe(price, ma[1])
                  THEN [st |-> [s1 EXCEPT !.pullback_seen = FALSE], out |-> <<"LONG">>]
                  ELSE [st |-> s1, out |-> <<>>]
        ELSE IF reg = "DOWN"
        THEN IF RGt(price, ma[1])
             THEN [st |-> [s1 EXCEPT !.pullback_seen = TRUE], out |-> <<>>]
             ELSE IF s1.pullback_seen /\ RLe(price, ma[1])
                  THEN [st |-> [s1 EXCEPT !.pullback_seen = FALSE], out |-> <<"SHORT">>]
                  ELSE [st |-> s1, out |-> <<>>]
        ELSE [st |-> s1, out |-> <<>>]

(***************************************************************************)
(* run_symbol (backtest_engine.py): the simulation loop of one symbol.     *)
(* The timestamp of a bar is its number in the stream.                     *)
(***************************************************************************)
MaxBars == 7       \* longest bar stream

\* The bars a stream is made of: close c, high c + w, low c - w.  With
\* atr_period = 1 the ATR is the last true range; with a longer period it
\* depends on the whole stream, and the streams explored have fewer closes
\* and no wicks to keep the number of ATR histories small.
LoopCloses(period) == IF period = 1 THEN {0, 1, 2, 4} ELSE {1, 2, 4}
LoopWicks(period) == IF period = 1 THEN {0, 1} ELSE {0}
LoopBars(period) ==
    {[open |-> RInt(c - w), high |-> RInt(c + w), low |-> RInt(c - w),
      close |-> RInt(c)] : c \in LoopCloses(period), w \in LoopWicks(period)}

\* The YAML parameters of a run: regime.slope, entry.pullback_resumption,
\* exits.<symbol>.atr_period and risk.<symbol>.risk_usd.
LoopConfigs ==
    { [atr_period |-> 1, n_short |-> 2, n_long |-> 3, ma_lookback |-> 2,
       risk_usd |-> RInt(1)],
      [atr_period |-> 2, n_short |-> 2, n_long |-> 3, ma_lookback |-> 2,
       risk_usd |-> RInt(1)] }

\* write_trade: the record appended to trades.
TradeRecord(t) ==
    [entry_ts |-> t.entry_ts, entry_price |-> t.entry_price, side |-> t.side,
     sl |-> t.sl, tp |-> t.tp, exit_ts |-> t.exit_ts, exit_price |-> t.exit_price,
     exit_reason |-> t.exit_reason, R |-> t.R, size |-> t.size]

\* `cur_atr or 0.0` and `cur_atr or ''`: None and 0.0 are both falsy.
Falsy(x) == x = <<>> \/ x[1] = RZero

\* Mutant of EntryBranch: the flat check is missing.
EntryBranch_NoFlatCheck(act, cur_atr) == cur_atr # <<>>

\* The guard of the entry branch: tm.active is None and cur_atr is not None.
EntryBranch(act, cur_atr) == act = <<>> /\ cur_atr # <<>>

\* The position size computed on a signal bar.
SizeQty(risk_usd, cur_atr, sl_mult, c) ==
    LET sl_dist == RMul(cur_atr, sl_mult)
    IN  IF RGt(sl_dist, RZero) /\ RGt(c, RZero)
        THEN RDiv(RDiv(risk_usd, sl_dist), c)
        ELSE RZero

\* The timeline row of a bar.
TimelineRow(ts, b, cur_atr, reg, sig, pos, act) ==
    [timestamp |-> ts, open |-> b.open, high |-> b.high, low |-> b.low,
     close |-> b.close,
     atr |-> IF Falsy(cur_atr) THEN <<>> ELSE cur_atr,
     regime |-> reg, signal |-> sig, position |-> pos,
     sl |-> IF act # <<>> THEN <<act[1].sl>> ELSE <<>>,
     tp |-> IF act # <<>> THEN <<act[1].tp>> ELSE <<>>]

\* Mutant of LoopBody: a Trade opened on a bar is advanced by on_bar on
\* that same bar.
LoopBody_AdvanceOnEntry(ts, b) ==
    LET a1 == ATR_update(atr_est, b.open, b.high, b.low, b.close)
        cur_atr == a1.atr
        g1 == SlopeRegime_update(regime, b.close)
        reg == g1.regime
        pos == IF active = <<>> THEN "FLAT" ELSE active[1].side
        base == [atr |-> a1, regime |-> g1, signal |-> signal, active |-> active,
                 ret |-> <<>>, err |-> "", trades |-> trades, last |-> NoCall,
                 sig |-> <<>>, pos |-> pos]
    IN  IF EntryBranch(active, cur_atr)
        THEN LET sg == PullbackResumption_on_bar(signal, b.close, reg)
             IN  IF sg.out # <<>> /\ sg.out[1] \in {"LONG", "SHORT"}
                      /\ reg \in {"UP", "DOWN"}
                 THEN LET qty == SizeQty(cfg.risk_usd, cur_atr[1], p.atr_mult_sl, b.close)
                          t == TM_open(p, ts, sg.out[1], b.close, cur_atr[1], qty)
                          r == TM_on_bar(p, <<t>>, ts, b.high, b.low, b.close,
                                         cur_atr[1])
                      IN  [base EXCEPT !.signal = sg.st, !.sig = sg.out,
                                       !.active = r.active, !.ret = r.ret,
                                       !.err = r.err,
                                       !.trades = IF r.ret # <<>>
                                                  THEN Append(trades, TradeRecord(r.ret[1]))
                                                  ELSE trades,
                                       !.last = [op |-> "open", ts |-> ts,
                                                 high |-> b.close, low |-> b.close,
                                                 close |-> b.close, atr |-> cur_atr[1],
                                                 pre |-> active]]
                 ELSE [base EXCEPT !.signal = sg.st, !.sig = sg.out]
        ELSE LET a0 == IF Falsy(cur_atr) THEN RZero ELSE cur_atr[1]
                 r == TM_on_bar(p, active, ts, b.high, b.low, b.close, a0)
             IN  [base EXCEPT !.active = r.active, !.ret = r.ret, !.err = r.err,
                              !.trades = IF r.ret # <<>>
                                         THEN Append(trades, TradeRecord(r.ret[1]))
                                         ELSE trades,
                              !.pos = IF r.ret # <<>> THEN "FLAT" ELSE pos,
                              !.last = [op |-> "on_bar", ts |-> ts, high |-> b.high,
                                        low |-> b.low, close |-> b.close, atr |-> a0,
                                        pre |-> active]]

\* The body of the loop for bar b with timestamp ts: every value it leaves
\* behind.
LoopBody(ts, b) ==
    LET a1 == ATR_update(atr_est, b.open, b.high, b.low, b.close)
        cur_atr == a1.atr
        g1 == SlopeRegime_update(regime, b.close)
        reg == g1.regime
        pos == IF active = <<>> THEN "FLAT" ELSE active[1].side
        base == [atr |-> a1, regime |-> g1, signal |-> signal, active |-> active,
                 ret |-> <<>>, err |-> "", trades |-> trades, last |-> NoCall,
                 sig |-> <<>>, pos |-> pos]
    IN  IF EntryBranch(active, cur_atr)
        THEN LET sg == PullbackResumption_on_bar(signal, b.close, reg)
             IN  IF sg.out # <<>> /\ sg.out[1] \in {"LONG", "SHORT"}
                      /\ reg \in {"UP", "DOWN"}
                 THEN LET qty == SizeQty(cfg.risk_usd, cur_atr[1], p.atr_mult_sl, b.close)
                          t == TM_open(p, ts, sg.out[1], b.close, cur_atr[1], qty)
                      IN  [base EXCEPT !.signal = sg.st, !.sig = sg.out,
                                       !.active = <<t>>, !.ret = <<t>>,
                                       !.last = [op |-> "open", ts |-> ts,
                                                 high |-> b.close, low |-> b.close,
                                                 close |-> b.close, atr |-> cur_atr[1],
                                                 pre |-> active]]
                 ELSE [base EXCEPT !.signal = sg.st, !.sig = sg.out]
        ELSE LET a0 == IF Falsy(cur_atr) THEN RZero ELSE cur_atr[1]
                 r == TM_on_bar(p, active, ts, b.high, b.low, b.close, a0)
             IN  [base EXCEPT !.active = r.active, !.ret = r.ret, !.err = r.err,
                              !.trades = IF r.ret # <<>>
                                         THEN Append(trades, TradeRecord(r.ret[1]))
                                         ELSE trades,
                              !.pos = IF r.ret # <<>> THEN "FLAT" ELSE pos,
                              !.last = [op |-> "on_bar", ts |-> ts, high |-> b.high,
                                        low |-> b.low, close |-> b.close, atr |-> a0,
                                        pre |-> active]]

Init ==
    /\ p \in ExitParamsSet
    /\ cfg \in LoopConfigs
    /\ active = <<>>
    /\ ret = <<>>
    /\ err = ""
    /\ last = NoCall
    /\ pc = "loop"
    /\ bar = <<>>
    /\ atr_est = ATR_init(cfg.atr_period)
    /\ regime = SlopeRegime_init(cfg.n_short, cfg.n_long)
    /\ signal = PullbackResumption_init(cfg.ma_lookback)
    /\ trades = <<>>
    /\ row = <<>>
    /\ calls = <<>>
    /\ rows_read = <<>> /\ cur_min = <<>> /\ acc = <<>> /\ yielded = <<>>
    /\ NoStream /\ wf = <<>>

NBars == IF bar = <<>> THEN 0 ELSE bar[1].ts

\* One iteration of `for bar in iter_symbol_bars(...)`.  An exception
\* raised by on_bar leaves the loop (and run_symbol) before the timeline
\* row of the bar is appended.
Bar ==
    /\ pc = "loop"
    /\ NBars < MaxBars
    /\ \E b \in LoopBars(cfg.atr_period) : \E n \in {LoopBody(NBars + 1, b)} :
          LET ts == NBars + 1
          IN  /\ bar' = <<[ts |-> ts, open |-> b.open, high |-> b.high,
                           low |-> b.low, close |-> b.close]>>
              /\ atr_est' = n.atr
              /\ regime' = n.regime
              /\ signal' = n.signal
              /\ active' = n.active
              /\ ret' = n.ret
              /\ err' = n.err
              /\ last' = n.last
              /\ trades' = n.trades
              /\ row' = IF n.err = ""
                        THEN <<TimelineRow(ts, b, n.atr.atr, n.regime.regime, n.sig,
                                           n.pos, n.active)>>
                        ELSE row
              /\ pc' = IF n.err = "" THEN "loop" ELSE "raised"
    /\ UNCHANGED <<p, cfg>>
    /\ UNCHANGED <<calls, tickvars>>
    /\ UNCHANGED <<streamvars, wf>>

\* Mutant of ForceClosed: the Trade is closed at its entry price.
ForceClosed_AtEntry(t, ts, c) ==
    [t EXCEPT !.exit_ts = ts, !.exit_price = t.entry_price, !.exit_reason = "BE",
              !.R = RZero]

\* The forced close of a Trade still open after the loop.
ForceClosed(t, ts, c) ==
    [t EXCEPT !.exit_ts = ts, !.exit_price = c, !.exit_reason = "BE", !.R = RZero]

\* The stream is exhausted: the code after the loop, up to the summary.
EndOfStream ==
    /\ pc = "loop"
    /\ IF active # <<>>
       THEN LET t == ForceClosed(active[1], bar[1].ts, bar[1].close)
            IN  /\ trades' = Append(trades, TradeRecord(t))
                /\ active' = <<>>
       ELSE UNCHANGED <<trades, active>>
    /\ last' = [NoCall EXCEPT !.op = "end", !.pre = active]
    /\ ret' = <<>>
    /\ pc' = "done"
    /\ UNCHANGED <<p, cfg, err, bar, atr_est, regime, signal, row>>
    /\ UNCHANGED <<calls, tickvars>>
    /\ UNCHANGED <<streamvars, wf>>

Next == Bar \/ EndOfStream

Spec == Init /\ [][Next]_vars

(***************************************************************************)
(* SpecATR: a client feeds bars to one ATR instance and records what each  *)
(* update returned, as tests/test_atr.py does.                             *)
(***************************************************************************)
MaxUpdates == 5    \* longest sequence of calls on one indicator instance
MaxPeriod == 3     \* the ATR periods are 1..MaxPeriod

\* The bars fed to the ATR, <<high, low, close>>: low <= high, the close
\* anywhere (a close outside the next bar's range makes a gap).
AtrBarMenu == {<<1, 1, 1>>, <<2, 2, 2>>, <<2, 0, 1>>, <<3, 1, 3>>, <<4, 3, 0>>,
               <<1, 0, 0>>}
AtrBars == {[open |-> RInt(b[2]), high |-> RInt(b[1]), low |-> RInt(b[2]),
             close |-> RInt(b[3])] : b \in AtrBarMenu}

\* No TradeManager, loop or file reader takes part in an indicator run.
IndicatorIdle ==
    /\ p = <<>> /\ active = <<>> /\ ret = <<>> /\ err = "" /\ last = NoCall
    /\ cfg = <<>> /\ bar = <<>> /\ trades = <<>> /\ row = <<>>
    /\ rows_read = <<>> /\ cur_min = <<>> /\ acc = <<>> /\ yielded = <<>>
    /\ NoStream /\ wf = <<>>

InitATR ==
    /\ IndicatorIdle
    /\ pc = "atr"
    /\ \E period \in 1..MaxPeriod : atr_est = ATR_init(period)
    /\ regime = <<>> /\ signal = <<>>
    /\ calls = <<>>

\* vals.append(atr.update(o, h, l, c))
AtrUpdate ==
    /\ pc = "atr"
    /\ Len(calls) < MaxUpdates
    /\ \E b \in AtrBars :
          \E a \in {ATR_update(atr_est, b.open, b.high, b.low, b.close)} :
              /\ atr_est' = a
              /\ calls' = Append(calls, [open |-> b.open, high |-> b.high,
                                         low |-> b.low, close |-> b.close,
                                         ret |-> a.atr])
    /\ UNCHANGED <<p, active, ret, err, last, pc, cfg, bar, regime, signal, trades, row>>
    /\ UNCHANGED tickvars
    /\ UNCHANGED <<streamvars, wf>>

NextATR == AtrUpdate

SpecATR == InitATR /\ [][NextATR]_vars

(***************************************************************************)
(* SpecRegime: a client feeds closes to one SlopeRegime instance and       *)
(* records the label each update returned.                                 *)
(***************************************************************************)
\* The closes fed to the classifier and to the signal generator.
IndicatorPrices == {RInt(0), RInt(1), RInt(2), RInt(4)}

\* (n_short, n_long) of the instance.
RegimeWindows == {<<1, 3>>, <<2, 3>>, <<2, 2>>}

InitRegime ==
    /\ IndicatorIdle
    /\ pc = "regime"
    /\ \E w \in RegimeWindows : regime = SlopeRegime_init(w[1], w[2])
    /\ atr_est = <<>> /\ signal = <<>>
    /\ calls = <<>>

\* reg = regime.update(c)
RegimeUpdate ==
    /\ pc = "regime"
    /\ Len(calls) < MaxUpdates
    /\ \E price \in IndicatorPrices :
          \E g \in {SlopeRegime_update(regime, price)} :
              /\ regime' = g
              /\ calls' = Append(calls, [price |-> price, ret |-> g.regime])
    /\ UNCHANGED <<p, active, ret, err, last, pc, cfg, bar, atr_est, signal, trades, row>>
    /\ UNCHANGED tickvars
    /\ UNCHANGED <<streamvars, wf>>

NextRegime == RegimeUpdate

SpecRegime == InitRegime /\ [][NextRegime]_vars

(***************************************************************************)
(* SpecSignal: a client calls on_bar of one PullbackResumption instance    *)
(* with arbitrary prices and regime labels and records, for each call, the *)
(* returned signal and the pullback-seen flag it left behind.              *)
(***************************************************************************)
MaxSignalCalls == 4    \* longest sequence of on_bar calls

SignalPrices == {RInt(1), RInt(2), RInt(4)}
RegimeLabels == {"UP", "DOWN", "FLAT"}
Lookbacks == {1, 2, 3}

InitSignal ==
    /\ IndicatorIdle
    /\ pc = "signal"
    /\ \E n \in Lookbacks : signal = PullbackResumption_init(n)
    /\ atr_est = <<>> /\ regime = <<>>
    /\ calls = <<>>

\* sig = signal.on_bar(c, reg)
SignalOnBar ==
    /\ pc = "signal"
    /\ Len(calls) < MaxSignalCalls
    /\ \E price \in SignalPrices, reg \in RegimeLabels :
          \E r \in {PullbackResumption_on_bar(signal, price, reg)} :
              /\ signal' = r.st
              /\ calls' = Append(calls, [price |-> price, regime |-> reg,
                                         ret |-> r.out,
                                         seen |-> r.st.pullback_seen])
    /\ UNCHANGED <<p, active, ret, err, last, pc, cfg, bar, atr_est, regime, trades, row>>
    /\ UNCHANGED tickvars
    /\ UNCHANGED <<streamvars, wf>>

NextSignal == SignalOnBar

SpecSignal == InitSignal /\ [][NextSignal]_vars

\* The signal generator under both of its callers: the client of SpecSignal
\* and the simulation loop of Spec.
InitSignalCallers == InitSignal \/ Init

NextSignalCallers == SignalOnBar \/ Bar \/ EndOfStream

SpecSignalCallers == InitSignalCallers /\ [][NextSignalCallers]_vars

(***************************************************************************)
(* Tick aggregation (backtest/core/data_loader.py).  A CSV cell is <<>>    *)
(* when the row has no such column (or the value is None) and <<s>> for    *)
(* the string s it holds.  A string is modelled by its kind: "blank"       *)
(* (empty or whitespace), "digits" (str.isdigit: the decimal number        *)
(* hi * 10^10 + lo), "iso" (an ISO-8601 time, given by the epoch second     *)
(* it denotes), "num" (a string float() parses, given by its value) and    *)
(* "bad" (none of these).                                                  *)
(***************************************************************************)
MsThresholdDiv1000 == 10000000     \* 1_000_000_000_0 // 1000

Blank == [kind |-> "blank"]
BadString == [kind |-> "bad"]
Digits(hi, lo) == [kind |-> "digits", hi |-> hi, lo |-> lo]
Iso(epoch) == [kind |-> "iso", epoch |-> epoch]
Num(v) == [kind |-> "num", v |-> RInt(v)]

\* _first_present over the aliases of one column: None unless the value is
\* there and not blank.
FirstPresent(cell) ==
    IF cell = <<>> \/ cell[1].kind = "blank" THEN <<>> ELSE cell

\* _to_epoch_seconds of a string: digits are seconds, or milliseconds when
\* the number exceeds 10^10; an ISO time is its epoch second; anything else
\* raises ValueError.
ToEpochSeconds(s) ==
    IF s.kind = "digits"
    THEN IF s.hi > 1 \/ (s.hi = 1 /\ s.lo > 0)
         THEN [err |-> "", v |-> s.hi * MsThresholdDiv1000 + (s.lo \div 1000)]
         ELSE [err |-> "", v |-> s.lo]
    ELSE IF s.kind = "iso"
         THEN [err |-> "", v |-> s.epoch]
         ELSE [err |-> "ValueError", v |-> 0]

\* _minute_floor
MinuteFloor(epoch_s) == epoch_s - (epoch_s % 60)

\* _iso_minute: the ISO string of the minute of epoch_s, given by the epoch
\* second it denotes.
IsoMinute(epoch_s) == epoch_s - (epoch_s % 60)

\* float(p_raw): <<value>>, or <<>> when float() raises.
ParseFloat(s) == IF s.kind = "num" THEN <<s.v>> ELSE <<>>

\* Mutant of ParseQty: a missing or unparseable quantity counts as 1.0.
ParseQty_DefaultOne(q_raw) ==
    IF q_raw = <<>> THEN RInt(1)
    ELSE IF ParseFloat(q_raw[1]) = <<>> THEN RInt(1) ELSE ParseFloat(q_raw[1])[1]

\* q = float(q_raw) if q_raw is not None else 0.0, and 0.0 when float() raises.
ParseQty(q_raw) ==
    IF q_raw = <<>> THEN RZero
    ELSE IF ParseFloat(q_raw[1]) = <<>> THEN RZero ELSE ParseFloat(q_raw[1])[1]

\* The locals o, h, l, c, vol before the first tick.
NoTicks == [o |-> <<>>, h |-> <<>>, l |-> <<>>, c |-> <<>>, vol |-> RZero]

\* o = h = l = c = p; vol = q
StartMinute(price, q) ==
    [o |-> <<price>>, h |-> <<price>>, l |-> <<price>>, c |-> <<price>>, vol |-> q]

\* same minute, update OHLCV
SameMinute(a, price, q) ==
    [a EXCEPT !.c = <<price>>,
              !.h = IF RGt(price, a.h[1]) THEN <<price>> ELSE a.h,
              !.l = IF RLt(price, a.l[1]) THEN <<price>> ELSE a.l,
              !.vol = RAdd(a.vol, q)]

\* The bar yielded for minute cm with the locals a.
MinuteBar(cm, a) ==
    [timestamp |-> IsoMinute(cm), open |-> a.o[1], high |-> a.h[1],
     low |-> a.l[1], close |-> a.c[1], volume |-> a.vol]

\* Mutant of TickStep: the bar of a finished minute is stamped with the
\* minute of the tick that ended it.
TickStep_StampsNewMinute(cm, a, r) ==
    LET skip == [cur_min |-> cm, acc |-> a, out |-> <<>>, err |-> ""]
        ts_raw == FirstPresent(r.ts)
    IN  IF ts_raw = <<>> THEN skip
        ELSE LET ep == ToEpochSeconds(ts_raw[1])
                 p_raw == FirstPresent(r.price)
             IN  IF ep.err # "" THEN [skip EXCEPT !.err = ep.err]
                 ELSE IF p_raw = <<>> THEN skip
                 ELSE IF ParseFloat(p_raw[1]) = <<>> THEN skip
                 ELSE LET m == MinuteFloor(ep.v)
                          price == ParseFloat(p_raw[1])[1]
                          q == ParseQty(FirstPresent(r.qty))
                      IN  IF cm = <<>>
                          THEN [skip EXCEPT !.cur_min = <<m>>,
                                            !.acc = StartMinute(price, q)]
                          ELSE IF m # cm[1]
                          THEN [skip EXCEPT !.out = <<MinuteBar(m, a)>>,
                                            !.cur_min = <<m>>,
                                            !.acc = StartMinute(price, q)]
                          ELSE [skip EXCEPT !.acc = SameMinute(a, price, q)]

\* The body of `for row in reader` for row r, with cur_min = cm and the
\* locals a: the new cur_min and locals, the bar yielded (<<>> if none) and
\* the exception raised ("" if none).
TickStep(cm, a, r) ==
    LET skip == [cur_min |-> cm, acc |-> a, out |-> <<>>, err |-> ""]
        ts_raw == FirstPresent(r.ts)
    IN  IF ts_raw = <<>> THEN skip
        ELSE LET ep == ToEpochSeconds(ts_raw[1])
                 p_raw == FirstPresent(r.price)
             IN  IF ep.err # "" THEN [skip EXCEPT !.err = ep.err]
                 ELSE IF p_raw = <<>> THEN skip
                 ELSE IF ParseFloat(p_raw[1]) = <<>> THEN skip
                 ELSE LET m == MinuteFloor(ep.v)
                          price == ParseFloat(p_raw[1])[1]
                          q == ParseQty(FirstPresent(r.qty))
                      IN  IF cm = <<>>
                          THEN [skip EXCEPT !.cur_min = <<m>>,
                                            !.acc = StartMinute(price, q)]
                          ELSE IF m # cm[1]
                          THEN [skip EXCEPT !.out = <<MinuteBar(cm[1], a)>>,
                                            !.cur_min = <<m>>,
                                            !.acc = StartMinute(price, q)]
                          ELSE [skip EXCEPT !.acc = SameMinute(a, price, q)]

(***************************************************************************)
(* SpecTicks: _iter_ticks_aggregated_1m reads one tick file row by row and *)
(* is consumed to the end.                                                 *)
(***************************************************************************)
MaxRows == 3       \* longest tick file, in rows

\* Rows that are ticks: the timestamps 5 s and 30 s (one minute), the ISO
\* time of 70 s (the next minute) and a millisecond timestamp.
TickRowsValid ==
    {[ts |-> <<t>>, price |-> <<Num(v)>>, qty |-> <<Num(1)>>] :
        t \in {Digits(0, 5), Digits(0, 30), Iso(70)}, v \in {1, 2}}
    \cup {[ts |-> <<Digits(1, 30000)>>, price |-> <<Num(1)>>, qty |-> <<Num(1)>>]}

\* Ticks without a usable quantity.
TickRowsNoQty ==
    {[ts |-> <<Digits(0, 30)>>, price |-> <<Num(2)>>, qty |-> q] :
        q \in {<<>>, <<Blank>>, <<BadString>>}}

\* Rows without a usable timestamp or price.
TickRowsInvalid ==
    {[ts |-> t, price |-> <<Num(4)>>, qty |-> <<Num(1)>>] :
        t \in {<<>>, <<Blank>>, <<BadString>>}}
    \cup {[ts |-> <<Iso(70)>>, price |-> v, qty |-> <<Num(1)>>] :
        v \in {<<>>, <<Blank>>, <<BadString>>}}

TickRows == TickRowsValid \cup TickRowsNoQty \cup TickRowsInvalid

InitTicks ==
    /\ p = <<>> /\ active = <<>> /\ ret = <<>> /\ err = "" /\ last = NoCall
    /\ cfg = <<>> /\ bar = <<>> /\ trades = <<>> /\ row = <<>>
    /\ atr_est = <<>> /\ regime = <<>> /\ signal = <<>> /\ calls = <<>>
    /\ NoStream /\ wf = <<>>
    /\ pc = "ticks"
    /\ rows_read = <<>>
    /\ cur_min = <<>>
    /\ acc = NoTicks
    /\ yielded = <<>>

\* One iteration of `for row in reader`.
TickRow ==
    /\ pc = "ticks"
    /\ Len(rows_read) < MaxRows
    /\ \E r \in TickRows : \E n \in {TickStep(cur_min, acc, r)} :
          /\ rows_read' = Append(rows_read, r)
          /\ cur_min' = n.cur_min
          /\ acc' = n.acc
          /\ yielded' = yielded \o n.out
          /\ err' = n.err
          /\ pc' = IF n.err = "" THEN "ticks" ELSE "raised"
    /\ UNCHANGED <<p, active, ret, last, calls>>
    /\ UNCHANGED loopvars
    /\ UNCHANGED <<streamvars, wf>>

\* Mutant of LastFlush: the minute in progress at end of file is dropped.
LastFlush_Dropped(cm, a) == <<>>

\* flush last minute
LastFlush(cm, a) == IF cm # <<>> THEN <<MinuteBar(cm[1], a)>> ELSE <<>>

\* The reader is exhausted.
TickEof ==
    /\ pc = "ticks"
    /\ yielded' = yielded \o LastFlush(cur_min, acc)
    /\ pc' = "eof"
    /\ UNCHANGED <<p, active, ret, err, last, calls, rows_read, cur_min, acc>>
    /\ UNCHANGED loopvars
    /\ UNCHANGED <<streamvars, wf>>

NextTicks == TickRow \/ TickEof

SpecTicks == InitTicks /\ [][NextTicks]_vars

(***************************************************************************)
(* iter_symbol_bars (backtest/core/data_loader.py): the bar stream of one  *)
(* symbol.  A file of the symbol directory is given by the year-month its  *)
(* name holds (<<>> when it holds none, <<k>> for month k) and by the      *)
(* schema its header line has; the directory is the list of its files in   *)
(* filename order.  A month of the model lasts MonthSeconds.               *)
(***************************************************************************)
MaxFileRows == 2   \* longest file of a symbol directory, in rows
MonthSeconds == 120

File(yymm, schema) == [yymm |-> yymm, schema |-> schema, rows |-> <<>>]

\* _yymm_from_name: None, or the epoch seconds the month starts and ends at.
YymmFromName(yymm) ==
    IF yymm = <<>> THEN <<>>
    ELSE <<[f_start |-> yymm[1] * MonthSeconds, f_end |-> (yymm[1] + 1) * MonthSeconds]>>

\* _to_epoch_seconds(start) if start else None
WindowEpoch(arg) == IF arg = <<>> THEN <<>> ELSE <<ToEpochSeconds(arg[1]).v>>

\* The test of find_symbol_csvs that keeps file f.
KeepsFile(f, s_ep, e_ep) ==
    LET rng == YymmFromName(f.yymm)
    IN  \/ rng = <<>>
        \/ /\ (e_ep = <<>> \/ rng[1].f_start < e_ep[1])
           /\ (s_ep = <<>> \/ rng[1].f_end > s_ep[1])

\* find_symbol_csvs on the sorted directory dir.
find_symbol_csvs(dir, s_ep, e_ep) ==
    IF s_ep = <<>> /\ e_ep = <<>> THEN dir
    ELSE SelectSeq(dir, LAMBDA f : KeepsFile(f, s_ep, e_ep))

\* The body of `for row in reader` of _iter_ohlcv_file for row r: the bar
\* yielded, or the exception raised (_iso_minute(None) is a TypeError,
\* float() of a string that is no number a ValueError).
OhlcvStep(r) ==
    LET ts_raw == FirstPresent(r.ts)
    IN  IF ts_raw = <<>> THEN [out |-> <<>>, err |-> "TypeError"]
        ELSE LET ep == ToEpochSeconds(ts_raw[1])
                 o == ParseFloat(r.open)
                 h == ParseFloat(r.high)
                 l == ParseFloat(r.low)
                 c == ParseFloat(r.close)
                 v == IF r.volume = <<>> THEN <<RZero>> ELSE ParseFloat(r.volume[1])
             IN  IF ep.err # "" THEN [out |-> <<>>, err |-> ep.err]
                 ELSE IF o = <<>> \/ h = <<>> \/ l = <<>> \/ c = <<>> \/ v = <<>>
                 THEN [out |-> <<>>, err |-> "ValueError"]
                 ELSE [out |-> <<[timestamp |-> IsoMinute(ep.v),
                                  open |-> o[1], high |-> h[1], low |-> l[1],
                                  close |-> c[1], volume |-> v[1]]>>,
                       err |-> ""]

\* The test of iter_symbol_bars that yields bar b: ts_ep is parsed back from
\* the bar's ISO timestamp.
InWindow(b, w) ==
    LET ts_ep == ToEpochSeconds(Iso(b.timestamp)).v
    IN  /\ ~(w.start_ep # <<>> /\ ts_ep < w.start_ep[1])
        /\ ~(w.end_ep # <<>> /\ ts_ep >= w.end_ep[1])

\* The bars of out that iter_symbol_bars yields.
YieldedInWindow(out, w) == SelectSeq(out, LAMBDA b : InWindow(b, w))

(***************************************************************************)
(* SpecBars: iter_symbol_bars reads the files of one symbol, row by row,   *)
(* and is consumed to the end.                                             *)
(***************************************************************************)
\* The seconds the rows of a file are stamped with: two in minute 0, one in
\* minute 60.
StreamTimes == {5, 30, 70}

\* The rows of a tick file, the last with a timestamp nothing parses.
StreamTickRows ==
    {[ts |-> <<Digits(0, t)>>, price |-> <<Num(1)>>, qty |-> <<Num(1)>>] :
        t \in StreamTimes}
    \cup {[ts |-> <<BadString>>, price |-> <<Num(1)>>, qty |-> <<Num(1)>>]}

\* The rows of an OHLCV file, the last with a timestamp nothing parses.
StreamOhlcvRows ==
    {[ts |-> <<Digits(0, t)>>, open |-> Num(1), high |-> Num(1), low |-> Num(1),
      close |-> Num(1), volume |-> <<Num(1)>>] : t \in StreamTimes}
    \cup {[ts |-> <<BadString>>, open |-> Num(1), high |-> Num(1), low |-> Num(1),
           close |-> Num(1), volume |-> <<Num(1)>>]}

\* Symbol directories, in filename order.
Directories ==
    {<<>>,
     <<File(<<0>>, "ohlcv")>>,
     <<File(<<0>>, "ticks")>>,
     <<File(<<0>>, "unknown")>>,
     <<File(<<0>>, "ohlcv"), File(<<1>>, "ticks")>>,
     <<File(<<0>>, "ticks"), File(<<1>>, "ohlcv")>>,
     <<File(<<0>>, "ohlcv"), File(<<0>>, "ticks")>>,
     <<File(<<>>, "ticks"), File(<<0>>, "ticks")>>}

\* The start and end arguments of a run: None or an ISO time.
WindowStarts == {<<>>, <<Iso(60)>>}
WindowEnds == {<<>>, <<Iso(60)>>}

InitBars ==
    /\ p = <<>> /\ active = <<>> /\ ret = <<>> /\ err = "" /\ last = NoCall
    /\ cfg = <<>> /\ bar = <<>> /\ trades = <<>> /\ row = <<>>
    /\ atr_est = <<>> /\ regime = <<>> /\ signal = <<>> /\ calls = <<>>
    /\ wf = <<>>
    /\ pc = "files"
    /\ \E dir \in Directories, start \in WindowStarts, end \in WindowEnds :
          /\ window = [start_ep |-> WindowEpoch(start), end_ep |-> WindowEpoch(end)]
          /\ files = find_symbol_csvs(dir, WindowEpoch(start), WindowEpoch(end))
    /\ fp = 0
    /\ stream = <<>>
    /\ rows_read = <<>> /\ cur_min = <<>> /\ acc = NoTicks /\ yielded = <<>>

\* `for fp in find_symbol_csvs(...)` moves on: the next file is opened and
\* its reader chosen by iter_ohlcv_csv, or no file is left.
StreamNextFile ==
    /\ pc = "files"
    /\ IF fp = Len(files)
       THEN pc' = "exhausted" /\ UNCHANGED <<fp, err, cur_min, acc>>
       ELSE /\ fp' = fp + 1
            /\ cur_min' = <<>>
            /\ acc' = NoTicks
            /\ IF files[fp + 1].schema = "unknown"
               THEN err' = "ValueError" /\ pc' = "raised"
               ELSE err' = "" /\ pc' = "rows"
    /\ UNCHANGED <<p, active, ret, last, calls, rows_read, yielded, window, files,
                   stream, wf>>
    /\ UNCHANGED loopvars

\* The reader of the file yields what its next row gives and
\* iter_symbol_bars passes on the bars inside the window.
StreamRow ==
    /\ pc = "rows"
    /\ Len(files[fp].rows) < MaxFileRows
    /\ \E r \in IF files[fp].schema = "ohlcv" THEN StreamOhlcvRows ELSE StreamTickRows :
          \E n \in {IF files[fp].schema = "ohlcv"
                    THEN [cur_min |-> cur_min, acc |-> acc] @@ OhlcvStep(r)
                    ELSE TickStep(cur_min, acc, r)} :
              /\ files' = [files EXCEPT ![fp].rows = Append(@, r)]
              /\ cur_min' = n.cur_min
              /\ acc' = n.acc
              /\ yielded' = yielded \o n.out
              /\ stream' = stream \o YieldedInWindow(n.out, window)
              /\ err' = n.err
              /\ pc' = IF n.err = "" THEN "rows" ELSE "raised"
    /\ UNCHANGED <<p, active, ret, last, calls, rows_read, window, fp, wf>>
    /\ UNCHANGED loopvars

\* The file is exhausted: a tick file flushes its last minute.
StreamFileEof ==
    /\ pc = "rows"
    /\ \E out \in {IF files[fp].schema = "ticks" THEN LastFlush(cur_min, acc)
                   ELSE <<>>} :
          /\ yielded' = yielded \o out
          /\ stream' = stream \o YieldedInWindow(out, window)
    /\ pc' = "files"
    /\ UNCHANGED <<p, active, ret, err, last, calls, rows_read, cur_min, acc, window,
                   files, fp, wf>>
    /\ UNCHANGED loopvars

NextBars == StreamNextFile \/ StreamRow \/ StreamFileEof

SpecBars == InitBars /\ [][NextBars]_vars

(***************************************************************************)
(* Walk-forward windows (backtest/core/walkforward.py).  The argument of   *)
(* --walkforward is the list of its comma-separated parts; a part is       *)
(* key=value or has no "=".  A value is an integer literal (the number     *)
(* int() returns for it) or a string int() rejects.  A datetime is its     *)
(* month, counted from month 0, and whether anything follows the first     *)
(* instant of that month (rest = 1) or not (rest = 0); the ISO string of   *)
(* the first instant of a month is given by the number of the month.       *)
(***************************************************************************)
MaxParts == 3      \* most comma-separated parts of a --walkforward argument
MaxMonths == 5     \* the dates of a run lie in the months 0..MaxMonths
MaxWindows == 8    \* bound on the windows built when the loop does not end

IntStr(n) == [kind |-> "int", v |-> n]
NotInt == [kind |-> "bad", v |-> 0]
WfPair(k, v) == [eq |-> TRUE, key |-> k, val |-> v]
WfBare == [eq |-> FALSE, key |-> "", val |-> NotInt]

\* WFSpec
WFSpec(train, test, step) ==
    [train_months |-> train, test_months |-> test, step_months |-> step]

\* dict(p.split("=", 1) for p in s.split(","))[k]: the value of the last part
\* with key k, <<>> when no part has it (KeyError).
DictGet(s, k) ==
    LET idx == {j \in 1..Len(s) : s[j].eq /\ s[j].key = k}
    IN  IF idx = {} THEN <<>>
        ELSE <<s[CHOOSE j \in idx : \A m \in idx : m <= j].val>>

\* Mutant of parse_wf: a step longer than the test span is accepted.
parse_wf_NoStepCheck(s) ==
    LET fail == [err |-> "ValueError", spec |-> <<>>]
        train == DictGet(s, "train")
        test == DictGet(s, "test")
        step == DictGet(s, "step")
    IN  IF \E j \in 1..Len(s) : ~s[j].eq THEN fail
        ELSE IF train = <<>> \/ test = <<>> \/ step = <<>> THEN fail
        ELSE IF train[1].kind # "int" \/ test[1].kind # "int" \/ step[1].kind # "int"
        THEN fail
        ELSE IF train[1].v <= 0 \/ test[1].v <= 0 \/ step[1].v <= 0 THEN fail
        ELSE [err |-> "", spec |-> <<WFSpec(train[1].v, test[1].v, step[1].v)>>]

\* parse_wf: the WFSpec returned, or the ValueError raised.  A part without
\* "=" makes dict() raise, a missing key makes the lookup raise and a value
\* that is no integer makes int() raise: each is re-raised as ValueError.
parse_wf(s) ==
    LET fail == [err |-> "ValueError", spec |-> <<>>]
        train == DictGet(s, "train")
        test == DictGet(s, "test")
        step == DictGet(s, "step")
    IN  IF \E j \in 1..Len(s) : ~s[j].eq THEN fail
        ELSE IF train = <<>> \/ test = <<>> \/ step = <<>> THEN fail
        ELSE IF train[1].kind # "int" \/ test[1].kind # "int" \/ step[1].kind # "int"
        THEN fail
        ELSE IF train[1].v <= 0 \/ test[1].v <= 0 \/ step[1].v <= 0 THEN fail
        ELSE IF step[1].v > test[1].v THEN fail
        ELSE [err |-> "", spec |-> <<WFSpec(train[1].v, test[1].v, step[1].v)>>]

\* A datetime.
Dt(m, rest) == [month |-> m, rest |-> rest]

\* cur < end for cur the first instant of month m.
MonthStartBefore(m, end) == m < end.month \/ (m = end.month /\ end.rest > 0)

RECURSIVE MonthsFrom(_, _)
\* The loop of month_range from cur on: the pairs (cur, nxt).
MonthsFrom(m, end) ==
    IF MonthStartBefore(m, end) THEN <<<<m, m + 1>>>> \o MonthsFrom(m + 1, end)
    ELSE <<>>

\* list(month_range(start_iso, end_iso)): cur starts at the first instant of
\* the month of start.
month_range(start, end) == MonthsFrom(start.month, end)

\* Mutant of WfIteration: the window index advances by one month whatever
\* step_months is.
WfIteration_StepOne(months, spec, i, windows) ==
    LET train_start == months[i + 1][1]
        train_end == train_start + spec.train_months
        test_end == train_end + spec.test_months
    IN  IF test_end > months[Len(months)][2]
        THEN [i |-> i, windows |-> windows, done |-> TRUE]
        ELSE [i |-> i + 1,
              windows |-> Append(windows,
                                 <<train_start, train_end, train_end, test_end>>),
              done |-> i + 1 >= Len(months)]

\* One iteration of `while True` in build_wf_windows (months[i] of the code
\* is months[i + 1] here): the new i and windows, and whether the loop was
\* left.
WfIteration(months, spec, i, windows) ==
    LET train_start == months[i + 1][1]
        train_end == train_start + spec.train_months
        test_end == train_end + spec.test_months
    IN  IF test_end > months[Len(months)][2]
        THEN [i |-> i, windows |-> windows, done |-> TRUE]
        ELSE [i |-> i + spec.step_months,
              windows |-> Append(windows,
                                 <<train_start, train_end, train_end, test_end>>),
              done |-> i + spec.step_months >= Len(months)]

(***************************************************************************)
(* SpecWF: run_backtest.main in walk-forward mode.  The WFSpec comes from  *)
(* parse_wf when --walkforward is given and from the YAML configuration,   *)
(* unvalidated, when it is not; build_wf_windows then builds the windows   *)
(* of the run between --start and --end.                                   *)
(***************************************************************************)
\* The parts a --walkforward argument is made of.
WfPartMenu ==
    {WfPair("train", IntStr(1)), WfPair("train", IntStr(2)), WfPair("train", IntStr(-1)),
     WfPair("test", IntStr(1)), WfPair("test", IntStr(2)), WfPair("test", IntStr(0)),
     WfPair("step", IntStr(1)), WfPair("step", IntStr(2)), WfPair("step", NotInt),
     WfPair("other", IntStr(1)), WfBare}

RECURSIVE WfStringsOfLen(_)
WfStringsOfLen(n) ==
    IF n = 0 THEN {<<>>}
    ELSE {Append(s, part) : s \in WfStringsOfLen(n - 1), part \in WfPartMenu}

\* str.split(",") returns at least one part.
WfStrings == UNION {WfStringsOfLen(n) : n \in 1..MaxParts}

\* The walkforward section of a YAML configuration.
WfYamlSpecs ==
    {WFSpec(train, test, step) : train \in {0, 1, 2}, test \in {1, 2}, step \in {0, 1, 2}}

\* --start and --end.
WfStarts == {Dt(m, rest) : m \in {0, 1}, rest \in {0, 1}}
WfEnds == {Dt(m, rest) : m \in 0..MaxMonths, rest \in {0, 1}}

\* The locals of main and of build_wf_windows before anything is parsed.
WfStart == [s |-> <<>>, spec |-> <<>>, months |-> <<>>, i |-> 0, windows |-> <<>>]

InitWF ==
    /\ p = <<>> /\ active = <<>> /\ ret = <<>> /\ err = "" /\ last = NoCall
    /\ cfg = <<>> /\ bar = <<>> /\ trades = <<>> /\ row = <<>>
    /\ atr_est = <<>> /\ regime = <<>> /\ signal = <<>> /\ calls = <<>>
    /\ rows_read = <<>> /\ cur_min = <<>> /\ acc = <<>> /\ yielded = <<>>
    /\ NoStream
    /\ pc = "wf_args"
    /\ wf = WfStart

\* if args.walkforward: wf = parse_wf(args.walkforward), a ValueError
\* becoming SystemExit.
WfParse ==
    /\ pc = "wf_args"
    /\ \E s \in WfStrings : \E r \in {parse_wf(s)} :
          /\ wf' = [wf EXCEPT !.s = <<s>>, !.spec = r.spec]
          /\ err' = IF r.err = "" THEN "" ELSE "SystemExit"
          /\ pc' = IF r.err = "" THEN "wf_build" ELSE "raised"
    /\ UNCHANGED <<p, active, ret, last, calls, tickvars, streamvars>>
    /\ UNCHANGED loopvars

\* wf = WFSpec(**wf_cfg) with the walkforward section of the YAML file.
WfFromYaml ==
    /\ pc = "wf_args"
    /\ \E spec \in WfYamlSpecs : wf' = [wf EXCEPT !.spec = <<spec>>]
    /\ pc' = "wf_build"
    /\ UNCHANGED <<p, active, ret, err, last, calls, tickvars, streamvars>>
    /\ UNCHANGED loopvars

\* build_wf_windows up to the loop: months = list(month_range(...)) and the
\* early return when there is no month.
WfMonths ==
    /\ pc = "wf_build"
    /\ \E start \in WfStarts, end \in WfEnds :
          \E months \in {month_range(start, end)} :
              /\ wf' = [wf EXCEPT !.months = months]
              /\ pc' = IF months = <<>> THEN "wf_returned" ELSE "wf_loop"
    /\ UNCHANGED <<p, active, ret, err, last, calls, tickvars, streamvars>>
    /\ UNCHANGED loopvars

\* One iteration of the loop of build_wf_windows.
WfIterate ==
    /\ pc = "wf_loop"
    /\ Len(wf.windows) < MaxWindows
    /\ \E r \in {WfIteration(wf.months, wf.spec[1], wf.i, wf.windows)} :
          /\ wf' = [wf EXCEPT !.i = r.i, !.windows = r.windows]
          /\ pc' = IF r.done THEN "wf_returned" ELSE "wf_loop"
    /\ UNCHANGED <<p, active, ret, err, last, calls, tickvars, streamvars>>
    /\ UNCHANGED loopvars

NextWF == WfParse \/ WfFromYaml \/ WfMonths \/ WfIterate

SpecWF == InitWF /\ [][NextWF]_vars

(***************************************************************************)
(* Properties of TradeManager, stated on the call at hand: `last` holds    *)
(* the arguments and the active slot before the call, `active`, `ret` and  *)
(* `err` what the call left behind.                                        *)
(***************************************************************************)
\* An on_bar call on an open Trade has run (returned or raised).
OnBarOnOpen == pc \in {"returned", "raised"} /\ last.op = "on_bar" /\ last.pre # <<>>

\* An on_bar call has returned a closed Trade.
ClosedByOnBar == pc = "returned" /\ last.op = "on_bar" /\ ret # <<>>

\* The exit levels of the Trade held before the call, tested on the bar of
\* the call, written out from the claim.
PreStopTouched ==
    LET t == last.pre[1]
    IN  IF t.side = "LONG" THEN RLe(last.low, t.sl) ELSE RGe(last.high, t.sl)

PreTargetTouched ==
    LET t == last.pre[1]
    IN  IF t.side = "LONG" THEN RGe(last.high, t.tp) ELSE RLe(last.low, t.tp)

\* C2 (as claimed): open on a manager that holds an open Trade fails with
\* InvalidStateError and leaves the open Trade in place, unchanged.
C2_OpenWhileOpenRejected ==
    (pc \in {"returned", "raised"} /\ last.op = "open" /\ last.pre # <<>>)
        => (err = "InvalidStateError" /\ active = last.pre)

\* C3: on_bar tests the stop first and the target second, both against the
\* levels the Trade held before the call: a touched stop marks the exit at
\* the stop price (also when the target is touched too), otherwise a touched
\* target marks it at the target price, otherwise the Trade is not closed;
\* a call that returns normally returns the closed Trade exactly when a
\* level was touched.
C3_ExitTestOrder ==
    OnBarOnOpen =>
        LET t == last.pre[1]
        IN  /\ PreStopTouched =>
                 /\ pc = "returned" => (ret # <<>> /\ ret[1].exit_price = t.sl)
                 /\ pc = "raised" => active[1].exit_price = t.sl
            /\ (~PreStopTouched /\ PreTargetTouched) =>
                 /\ pc = "returned" => (ret # <<>> /\ ret[1].exit_price = t.tp)
                 /\ pc = "raised" => active[1].exit_price = t.tp
            /\ (~PreStopTouched /\ ~PreTargetTouched) =>
                 (pc = "returned" /\ ret = <<>> /\ active # <<>>
                    /\ active[1].exit_reason = "")

\* C3 witness: one bar touched both the stop and the target of a Trade whose
\* levels differ, and the Trade was returned closed at the stop.
C3_Witness ==
    /\ ClosedByOnBar /\ last.pre # <<>>
    /\ PreStopTouched /\ PreTargetTouched
    /\ last.pre[1].sl # last.pre[1].tp
    /\ ret[1].exit_price = last.pre[1].sl

\* C4: a Trade closed by on_bar has reason SL exactly when the stop was hit
\* with tsl_active false, and TSL when the stop was hit with tsl_active true
\* or the target was hit; the reason is never BE.
C4_ExitReason ==
    ClosedByOnBar =>
        LET t == last.pre[1]
        IN  /\ ret[1].exit_reason \in {"SL", "TSL"}
            /\ ret[1].exit_reason = "SL" <=> (PreStopTouched /\ ~t.tsl_active)
            /\ ret[1].exit_reason = "TSL" <=>
                   ((PreStopTouched /\ t.tsl_active)
                      \/ (~PreStopTouched /\ PreTargetTouched))

\* C4 witness: a trailing Trade was stopped out and labelled TSL.
C4_Witness ==
    /\ ClosedByOnBar /\ PreStopTouched /\ last.pre[1].tsl_active
    /\ ret[1].exit_reason = "TSL"

\* C5: tsl_active implies be_moved in every Trade the manager holds or
\* returns, and an on_bar call that starts with be_moved false never ends
\* with tsl_active true (trailing starts no earlier than the call after the
\* breakeven move).
C5_TrailingAfterBreakeven ==
    /\ \A i \in 1..Len(active) : active[i].tsl_active => active[i].be_moved
    /\ \A i \in 1..Len(ret) : ret[i].tsl_active => ret[i].be_moved
    /\ (OnBarOnOpen /\ ~last.pre[1].be_moved) =>
           \A i \in 1..Len(active) : ~active[i].tsl_active

\* C5 witness: an on_bar call moved the stop to breakeven on a bar whose
\* close is also beyond the trailing target, and trailing stayed off.
C5_Witness ==
    /\ OnBarOnOpen /\ pc = "returned" /\ active # <<>>
    /\ ~last.pre[1].be_moved /\ active[1].be_moved /\ ~active[1].tsl_active
    /\ LET t == active[1]
           step == RMul(p.tsl_step_atr_mult, last.atr)
       IN  IF t.side = "LONG"
           THEN RGe(last.close, RAdd(t.entry_price, step))
           ELSE RLe(last.close, RSub(t.entry_price, step))

\* C6: while a Trade stays open, on_bar never loosens its stop: the stop of
\* a LONG never decreases and the stop of a SHORT never increases.
C6_StopNeverLoosens ==
    (OnBarOnOpen /\ active # <<>>) =>
        LET t == last.pre[1]
        IN  IF t.side = "LONG"
            THEN RGe(active[1].sl, t.sl)
            ELSE RLe(active[1].sl, t.sl)

\* C6 witness: a trailing step on an already trailing Trade tightened the
\* stop strictly.
C6_Witness ==
    /\ OnBarOnOpen /\ pc = "returned" /\ active # <<>>
    /\ last.pre[1].tsl_active
    /\ active[1].sl # last.pre[1].sl

\* C7: on_bar on an open Trade with be_moved false and no level touched:
\* progress is (close - entry)/(tp - entry) for a LONG and
\* (entry - close)/(entry - tp) for a SHORT, 0 when that target distance is
\* not positive; if progress >= breakeven_progress the Trade stays open with
\* be_moved true and sl = entry price, otherwise sl and be_moved are as
\* before.
C7_Reached ==
    LET t == last.pre[1]
        dist == IF t.side = "LONG" THEN RSub(t.tp, t.entry_price)
                ELSE RSub(t.entry_price, t.tp)
        move == IF t.side = "LONG" THEN RSub(last.close, t.entry_price)
                ELSE RSub(t.entry_price, last.close)
    IN  IF RGt(dist, RZero)
        THEN RGe(move, RMul(p.breakeven_progress, dist))
        ELSE RGe(RZero, p.breakeven_progress)

C7_BreakevenMove ==
    (OnBarOnOpen /\ ~last.pre[1].be_moved /\ ~PreStopTouched /\ ~PreTargetTouched) =>
        /\ pc = "returned" /\ active # <<>> /\ ret = <<>>
        /\ IF C7_Reached
           THEN active[1].be_moved /\ active[1].sl = last.pre[1].entry_price
           ELSE ~active[1].be_moved /\ active[1].sl = last.pre[1].sl

\* C7 witness: the breakeven move happened on a Trade whose stop was away
\* from the entry price.
C7_Witness ==
    /\ OnBarOnOpen /\ pc = "returned" /\ active # <<>>
    /\ ~last.pre[1].be_moved /\ active[1].be_moved
    /\ last.pre[1].sl # last.pre[1].entry_price
    /\ active[1].sl = active[1].entry_price

\* C8: on_bar on an open Trade with be_moved true and no level touched: for
\* a LONG with close >= entry + tsl_step_atr_mult*atr, tsl_active becomes
\* true and sl becomes max(sl, close - tsl_step_atr_mult*atr); for a SHORT
\* with close <= entry - tsl_step_atr_mult*atr, tsl_active becomes true and
\* sl becomes min(sl, close + tsl_step_atr_mult*atr); otherwise sl and
\* tsl_active are as before.
C8_TrailingStep ==
    (OnBarOnOpen /\ last.pre[1].be_moved /\ ~PreStopTouched /\ ~PreTargetTouched) =>
        LET t == last.pre[1]
            step == RMul(p.tsl_step_atr_mult, last.atr)
            lvlLong == RSub(last.close, step)
            lvlShort == RAdd(last.close, step)
        IN  /\ pc = "returned" /\ active # <<>> /\ ret = <<>>
            /\ IF t.side = "LONG"
               THEN IF RGe(last.close, RAdd(t.entry_price, step))
                    THEN /\ active[1].tsl_active
                         /\ active[1].sl = (IF RGe(t.sl, lvlLong) THEN t.sl ELSE lvlLong)
                    ELSE /\ active[1].tsl_active = t.tsl_active
                         /\ active[1].sl = t.sl
               ELSE IF RLe(last.close, RSub(t.entry_price, step))
                    THEN /\ active[1].tsl_active
                         /\ active[1].sl = (IF RLe(t.sl, lvlShort) THEN t.sl ELSE lvlShort)
                    ELSE /\ active[1].tsl_active = t.tsl_active
                         /\ active[1].sl = t.sl

\* C8 witness: a SHORT past its trailing target had its stop pulled down to
\* close + tsl_step_atr_mult*atr.
C8_Witness ==
    /\ OnBarOnOpen /\ pc = "returned" /\ active # <<>>
    /\ last.pre[1].be_moved /\ last.pre[1].side = "SHORT"
    /\ active[1].tsl_active /\ ~last.pre[1].tsl_active
    /\ active[1].sl # last.pre[1].sl
    /\ active[1].sl = RAdd(last.close, RMul(p.tsl_step_atr_mult, last.atr))

\* C9: the R of a Trade closed by on_bar is its signed P&L divided by
\* |atr_mult_sl * ATR of the exit bar|: R * |atr_mult_sl * atr| equals the
\* P&L, R > 0 for a LONG closed above and a SHORT closed below the entry
\* price, and R < 0 for exits on the other side.
C9_RMultiple ==
    ClosedByOnBar =>
        LET t == ret[1]
            pnl == IF t.side = "LONG" THEN RSub(t.exit_price, t.entry_price)
                   ELSE RSub(t.entry_price, t.exit_price)
            risk == RAbs(RMul(p.atr_mult_sl, last.atr))
        IN  /\ RGt(risk, RZero)
            /\ RMul(t.R, risk) = pnl
            /\ (t.side = "LONG" /\ RGt(t.exit_price, t.entry_price)) => RGt(t.R, RZero)
            /\ (t.side = "SHORT" /\ RLt(t.exit_price, t.entry_price)) => RGt(t.R, RZero)
            /\ (t.side = "LONG" /\ RLt(t.exit_price, t.entry_price)) => RLt(t.R, RZero)
            /\ (t.side = "SHORT" /\ RGt(t.exit_price, t.entry_price)) => RLt(t.R, RZero)

\* C9 witness: a SHORT was closed below its entry price on a bar whose ATR
\* differs from the ATR it was opened with.
C9_Witness ==
    /\ ClosedByOnBar
    /\ ret[1].side = "SHORT" /\ RLt(ret[1].exit_price, ret[1].entry_price)
    /\ RGt(ret[1].R, RZero)
    /\ RMul(p.atr_mult_sl, last.atr) # RSub(ret[1].sl, ret[1].entry_price)

\* C24: a call of on_bar that closes a Trade runs neither the trailing step
\* nor the breakeven check: the returned Trade has the sl, tp, be_moved and
\* tsl_active it had before the call, its exit price is the level that was
\* hit, and the manager is flat after the call.
C24_NoUpdatesOnExit ==
    ClosedByOnBar =>
        LET t == last.pre[1]
        IN  /\ ret[1].sl = t.sl /\ ret[1].tp = t.tp
            /\ ret[1].be_moved = t.be_moved /\ ret[1].tsl_active = t.tsl_active
            /\ ret[1].exit_price = (IF PreStopTouched THEN t.sl ELSE t.tp)
            /\ PreStopTouched \/ PreTargetTouched
            /\ active = <<>>

\* C24 witness: a Trade not yet at breakeven was closed at its target on a
\* bar whose close had reached the breakeven progress, and was returned with
\* be_moved false and its stop where it was.
C24_Witness ==
    /\ ClosedByOnBar /\ ~PreStopTouched /\ PreTargetTouched
    /\ ~last.pre[1].be_moved /\ ~ret[1].be_moved
    /\ ret[1].sl # ret[1].entry_price
    /\ C7_Reached

\* C30: an open Trade with be_moved true never has its stop on the losing
\* side of the entry price (LONG: sl >= entry; SHORT: sl <= entry), whatever
\* ATR values on_bar is given; a Trade stopped out after the breakeven move
\* has no negative R.
C30_StopAtOrBeyondEntry ==
    /\ \A i \in 1..Len(active) :
          active[i].be_moved =>
              IF active[i].side = "LONG"
              THEN RGe(active[i].sl, active[i].entry_price)
              ELSE RLe(active[i].sl, active[i].entry_price)
    /\ (ClosedByOnBar /\ last.pre[1].be_moved /\ PreStopTouched) =>
           RGe(ret[1].R, RZero)

\* C30 witness: a Trade was stopped out after its breakeven move, with a
\* trailed stop beyond the entry price and a positive R.
C30_Witness ==
    /\ ClosedByOnBar /\ last.pre[1].be_moved /\ PreStopTouched
    /\ last.pre[1].sl # last.pre[1].entry_price
    /\ RGt(ret[1].R, RZero)

\* The Trade an on_bar call on an open Trade left behind: the one it
\* returned, or the one still in the active slot.
TradeAfterOnBar == IF ret # <<>> THEN ret[1] ELSE active[1]

\* C31: on_bar never changes the side, entry timestamp, entry price,
\* take-profit or size of the Trade it works on, never sets be_moved or
\* tsl_active back to false, and a Trade it returns has left the manager
\* flat; no Trade held by the manager is trailing without having been moved
\* to breakeven, so a Trade only goes from OPEN to OPEN_BE to OPEN_TRAILING
\* and then to FLAT.
C31_LifecycleForward ==
    /\ \A i \in 1..Len(active) : active[i].tsl_active => active[i].be_moved
    /\ OnBarOnOpen =>
          LET t == last.pre[1]
              u == TradeAfterOnBar
          IN  /\ ret # <<>> \/ active # <<>>
              /\ u.side = t.side /\ u.entry_ts = t.entry_ts
              /\ u.entry_price = t.entry_price /\ u.tp = t.tp /\ u.size = t.size
              /\ t.be_moved => u.be_moved
              /\ t.tsl_active => u.tsl_active
              /\ u.tsl_active => u.be_moved
              /\ ret # <<>> => active = <<>>

\* C31 witness: an on_bar call took a Trade that was at breakeven and not
\* yet trailing to trailing, and the Trade is still open.
C31_Witness ==
    /\ OnBarOnOpen /\ pc = "returned" /\ ret = <<>> /\ active # <<>>
    /\ last.pre[1].be_moved /\ ~last.pre[1].tsl_active
    /\ active[1].be_moved /\ active[1].tsl_active
    /\ active[1].sl # last.pre[1].sl

(***************************************************************************)
(* Properties of the simulation loop.                                      *)
(***************************************************************************)
\* C1: after every bar the manager holds at most one open Trade, and the
\* loop calls open only with the manager flat: an open Trade is never
\* replaced by a new entry.
C1_OneOpenTrade ==
    /\ Len(active) <= 1
    /\ last.op = "open" => (last.pre = <<>> /\ active # <<>>)

\* C1 witness: after an earlier Trade was closed and recorded, a bar opened
\* the next one.
C1_Witness ==
    /\ pc = "loop" /\ last.op = "open" /\ active # <<>>
    /\ Len(trades) >= 1
    /\ active[1].entry_ts > trades[Len(trades)].exit_ts

\* C10: when the stream ends with a Trade open, that Trade is recorded once,
\* closed at the close and the timestamp of the last bar with reason BE and
\* R = 0, and the manager is flat; when it ends with no Trade open (also
\* with no bar at all), the trade list is left as it is.
C10_ForcedClose ==
    [][(pc = "loop" /\ pc' = "done") =>
          /\ active' = <<>>
          /\ IF active # <<>>
             THEN /\ trades' = Append(trades,
                        [TradeRecord(active[1]) EXCEPT
                            !.exit_ts = bar[1].ts, !.exit_price = bar[1].close,
                            !.exit_reason = "BE", !.R = RZero])
                  /\ \A i \in 1..Len(trades) :
                        trades[i].entry_ts # active[1].entry_ts
             ELSE trades' = trades]_vars

\* C10 witness: the run is over, a Trade that was open at the end of the
\* stream is the last record, closed with reason BE at the last close, away
\* from its entry price and some bars after its entry.
C10_Witness ==
    /\ pc = "done" /\ last.pre # <<>>
    /\ Len(trades) >= 1
    /\ trades[Len(trades)].exit_ts > trades[Len(trades)].entry_ts + 1
    /\ trades[Len(trades)].exit_reason = "BE"
    /\ trades[Len(trades)].exit_price # trades[Len(trades)].entry_price
    /\ trades[Len(trades)].exit_price = bar[1].close

\* C11 (as claimed): every bar of the stream advances the signal generator's
\* price window with the bar's close, whatever the position state and
\* whether or not the ATR is ready.
C11_WindowAdvancedEveryBar ==
    [][(bar' # bar) =>
          signal'.buf = DequeAppend(signal.buf, bar'[1].close, cfg.ma_lookback)]_vars

\* C12 (as claimed): a signal bar whose position sizing yields zero (ATR
\* zero, stop distance not positive or price not positive) opens no Trade and
\* raises nothing: the manager is flat after the bar.
C12_ZeroSizeOpensNothing ==
    (pc = "loop" /\ row # <<>> /\ row[1].timestamp = bar[1].ts
        /\ row[1].signal # <<>> /\ row[1].position = "FLAT"
        /\ (atr_est.atr[1] = RZero
              \/ RLe(RMul(atr_est.atr[1], p.atr_mult_sl), RZero)
              \/ RLe(bar[1].close, RZero)))
        => (active = <<>> /\ err = "")

\* The bar just processed opened the Trade the manager holds.
EntryBar ==
    pc = "loop" /\ active # <<>> /\ bar # <<>> /\ active[1].entry_ts = bar[1].ts

\* C25: the loop opens a Trade on a bar only if no Trade was open, the ATR
\* was ready, the signal was LONG or SHORT and the regime UP or DOWN; the
\* entry price is the bar's close and the stop and target are
\* entry -/+ atr_mult_sl*ATR and entry +/- atr_mult_tp*ATR of that bar; no
\* Trade is open during the first atr_period - 1 bars.
C25_EntryConditions ==
    /\ (pc = "loop" /\ last.op = "open") => EntryBar
    /\ EntryBar =>
          LET t == active[1]
              a == atr_est.atr
          IN  /\ last.op = "open" /\ last.pre = <<>>
              /\ a # <<>> /\ NBars >= cfg.atr_period
              /\ row[1].signal \in {<<"LONG">>, <<"SHORT">>}
              /\ row[1].regime \in {"UP", "DOWN"}
              /\ t.side = row[1].signal[1]
              /\ t.entry_price = bar[1].close
              /\ IF t.side = "LONG"
                 THEN /\ t.sl = RSub(t.entry_price, RMul(p.atr_mult_sl, a[1]))
                      /\ t.tp = RAdd(t.entry_price, RMul(p.atr_mult_tp, a[1]))
                 ELSE /\ t.sl = RAdd(t.entry_price, RMul(p.atr_mult_sl, a[1]))
                      /\ t.tp = RSub(t.entry_price, RMul(p.atr_mult_tp, a[1]))
    /\ (pc = "loop" /\ NBars < cfg.atr_period) => active = <<>>

\* C25 witness: with atr_period = 2 a LONG was opened on a bar with a
\* non-zero ATR, its stop below and its target above the close.
C25_Witness ==
    /\ EntryBar /\ cfg.atr_period = 2 /\ active[1].side = "LONG"
    /\ RLt(active[1].sl, bar[1].close) /\ RGt(active[1].tp, bar[1].close)
    /\ RSub(bar[1].close, active[1].sl) # RSub(active[1].tp, bar[1].close)

\* C26 (as claimed): in every timeline row the stop and target are blank
\* exactly when the position is FLAT, and are the open Trade's stop and
\* target when the position is LONG or SHORT.
C26_RowStopMatchesPosition ==
    (pc = "loop" /\ row # <<>>) =>
        LET r == row[1]
        IN  /\ r.position = "FLAT" <=> (r.sl = <<>> /\ r.tp = <<>>)
            /\ r.position \in {"LONG", "SHORT"} =>
                   /\ active # <<>> /\ r.position = active[1].side
                   /\ r.sl = <<active[1].sl>> /\ r.tp = <<active[1].tp>>

\* C27: the signal generator returns LONG only on a call with regime UP and
\* SHORT only on a call with regime DOWN; every Trade the loop opens is
\* LONG exactly when the regime of its entry bar is UP and SHORT exactly
\* when it is DOWN.
C27_SideMatchesRegime ==
    /\ pc = "signal" =>
          \A i \in 1..Len(calls) :
              /\ calls[i].ret = <<"LONG">> => calls[i].regime = "UP"
              /\ calls[i].ret = <<"SHORT">> => calls[i].regime = "DOWN"
    /\ EntryBar =>
          /\ active[1].side = "LONG" <=> regime.regime = "UP"
          /\ active[1].side = "SHORT" <=> regime.regime = "DOWN"
          /\ row[1].signal = <<active[1].side>>

\* C27 witness: the loop opened a SHORT on a bar whose regime is DOWN.
C27_Witness ==
    /\ EntryBar /\ active[1].side = "SHORT" /\ regime.regime = "DOWN"
    /\ RGt(atr_est.atr[1], RZero)

\* C28: a Trade opened on bar n is not advanced on bar n: after its entry
\* bar it is as open built it (no exit, no breakeven move, no trailing), and
\* no Trade closed by on_bar has its exit bar equal to its entry bar.
C28_NotAdvancedOnEntryBar ==
    /\ EntryBar =>
          LET t == active[1]
          IN  /\ t.exit_reason = "" /\ ~t.be_moved /\ ~t.tsl_active
              /\ t = TM_open(p, t.entry_ts, t.side, t.entry_price,
                              atr_est.atr[1], t.size)
    /\ \A i \in 1..Len(trades) :
          trades[i].exit_reason # "BE" => trades[i].exit_ts > trades[i].entry_ts

\* C28 witness: the entry bar's own range touches the stop of the Trade it
\* opened, and the Trade is open.
C28_Witness ==
    /\ EntryBar /\ active[1].exit_reason = ""
    /\ StopHit(active[1], bar[1].high, bar[1].low)

\* C29 (as claimed): the loop terminates with the manager flat; every Trade
\* that was opened is in the trade list exactly once, in entry order, and
\* reason BE occurs on the last trade at most.
C29_AllTradesRecorded ==
    /\ pc \in {"done", "raised"} => (pc = "done" /\ err = "" /\ active = <<>>)
    /\ pc \in {"loop", "done", "raised"} =>
          /\ \A i \in 1..Len(trades) : \A j \in 1..Len(trades) :
                 i < j => trades[i].entry_ts < trades[j].entry_ts
          /\ \A i \in 1..Len(trades) : \A k \in 1..Len(active) :
                 trades[i].entry_ts < active[k].entry_ts
          /\ \A i \in 1..(Len(trades) - 1) : trades[i].exit_reason # "BE"


(***************************************************************************)
(* Properties of the indicators, stated on the record of calls.            *)
(***************************************************************************)
\* The true range of the i-th bar fed to the ATR: high - low for the first
\* bar, max(high - low, |high - prev_close|, |low - prev_close|) after it.
TrueRangeOfCall(i) ==
    LET b == calls[i]
        hl == RSub(b.high, b.low)
    IN  IF i = 1 THEN hl
        ELSE LET prev == calls[i - 1].close
                 hc == IF RGe(b.high, prev) THEN RSub(b.high, prev) ELSE RSub(prev, b.high)
                 lc == IF RGe(b.low, prev) THEN RSub(b.low, prev) ELSE RSub(prev, b.low)
             IN  CHOOSE m \in {hl, hc, lc} : \A x \in {hl, hc, lc} : RGe(m, x)

RECURSIVE SumTrueRanges(_)
SumTrueRanges(n) ==
    IF n = 0 THEN RZero ELSE RAdd(SumTrueRanges(n - 1), TrueRangeOfCall(n))

\* C13: an ATR of period P returns None on each of its first P-1 updates
\* and a value on the P-th and every later update; the first value is the
\* mean of the first P true ranges.
C13_AtrWarmUp ==
    pc = "atr" =>
        \A i \in 1..Len(calls) :
            /\ i < atr_est.period => calls[i].ret = <<>>
            /\ i >= atr_est.period => calls[i].ret # <<>>
            /\ i = atr_est.period =>
                   RMul(calls[i].ret[1], RInt(atr_est.period)) = SumTrueRanges(i)

\* C13 witness: an ATR of period 3 became ready on its third update, after
\* a gap bar whose true range is larger than its high - low, and stayed
\* ready on the next update.
C13_Witness ==
    /\ pc = "atr" /\ atr_est.period = 3 /\ Len(calls) = 4
    /\ calls[2].ret = <<>> /\ calls[3].ret # <<>> /\ calls[4].ret # <<>>
    /\ RGt(TrueRangeOfCall(2), RSub(calls[2].high, calls[2].low))
    /\ TrueRangeOfCall(1) # TrueRangeOfCall(3)

\* The bars fed so far all have high = low = close = one price.
ConstantPriceCalls ==
    \A i \in 1..Len(calls) :
        /\ calls[i].high = calls[1].close
        /\ calls[i].low = calls[1].close
        /\ calls[i].close = calls[1].close

\* C14: the ATR value, once ready, is never negative, and on a
\* constant-price sequence of bars it is exactly 0 on every update from
\* warm-up onward.
C14_AtrNonNegative ==
    pc = "atr" =>
        \A i \in 1..Len(calls) :
            calls[i].ret # <<>> =>
                /\ RGe(calls[i].ret[1], RZero)
                /\ ConstantPriceCalls => calls[i].ret[1] = RZero

\* C14 witness: a constant, non-zero price fed past the warm-up of an ATR
\* of period 2 gave 0 on the updates after the warm-up.
C14_Witness ==
    /\ pc = "atr" /\ atr_est.period = 2 /\ Len(calls) >= 4
    /\ ConstantPriceCalls /\ calls[1].close # RZero
    /\ calls[Len(calls)].ret = <<RZero>>

\* The sum of the prices of calls from..to.
RECURSIVE SumPrices(_, _)
SumPrices(from, to) ==
    IF from > to THEN RZero
    ELSE RAdd(SumPrices(from, to - 1), calls[to].price)

\* C15: a classifier with long window L returns FLAT on each of its first
\* L-1 updates; on every later update it returns UP if the mean of the last
\* S closes is greater than the mean of the last L closes, DOWN if it is
\* smaller and FLAT if the two are equal.
C15_RegimeLabel ==
    pc = "regime" =>
        \A i \in 1..Len(calls) :
            LET S == regime.n_short
                L == regime.n_long
            IN  IF i < L
                THEN calls[i].ret = "FLAT"
                ELSE LET sumS == SumPrices(i - S + 1, i)
                         sumL == SumPrices(i - L + 1, i)
                         short == RMul(sumS, RInt(L))
                         long == RMul(sumL, RInt(S))
                     IN  /\ RGt(short, long) => calls[i].ret = "UP"
                         /\ RLt(short, long) => calls[i].ret = "DOWN"
                         /\ short = long => calls[i].ret = "FLAT"

\* C15 witness: a classifier with windows 1 and 3 returned FLAT on its second
\* update although the last close was above the mean so far, then UP, then
\* DOWN, then FLAT on equal means.
C15_Witness ==
    /\ pc = "regime" /\ regime.n_short = 1 /\ regime.n_long = 3
    /\ Len(calls) = 5
    /\ RGt(calls[2].price, calls[1].price) /\ calls[2].ret = "FLAT"
    /\ calls[3].ret = "UP" /\ calls[4].ret = "DOWN" /\ calls[5].ret = "FLAT"

\* Stated on the record of on_bar calls: the window of call i is full, the
\* price of call i compared with the mean of the last `lookback` prices, and
\* the pullback-seen flag call i found.
WindowFull(i) == i >= signal.lookback

PriceBelowMA(i) ==
    RLt(RMul(calls[i].price, RInt(signal.lookback)),
        SumPrices(i - signal.lookback + 1, i))

PriceAboveMA(i) ==
    RGt(RMul(calls[i].price, RInt(signal.lookback)),
        SumPrices(i - signal.lookback + 1, i))

SeenBefore(i) == IF i = 1 THEN FALSE ELSE calls[i - 1].seen

\* Call k observed a pullback: below the MA in regime UP, above it in DOWN.
PullbackAt(k) ==
    /\ WindowFull(k)
    /\ \/ calls[k].regime = "UP" /\ PriceBelowMA(k)
       \/ calls[k].regime = "DOWN" /\ PriceAboveMA(k)

\* C16: a call made before the window holds `lookback` prices emits no
\* signal; a call with regime FLAT emits no signal and leaves the
\* pullback-seen flag false; every emitted signal follows a pullback
\* observed after the last FLAT call.
C16_NoSignalUnreadyOrFlat ==
    pc = "signal" =>
        \A i \in 1..Len(calls) :
            /\ ~WindowFull(i) => calls[i].ret = <<>>
            /\ calls[i].regime = "FLAT" => (calls[i].ret = <<>> /\ ~calls[i].seen)
            /\ calls[i].ret # <<>> =>
                   \E k \in 1..(i - 1) :
                       /\ PullbackAt(k)
                       /\ \A j \in (k + 1)..i : calls[j].regime # "FLAT"

\* C16 witness: a FLAT call discarded a pullback: the call after it met the
\* resumption condition in regime UP and emitted nothing.
C16_Witness ==
    /\ pc = "signal" /\ Len(calls) = 4 /\ signal.lookback = 2
    /\ PullbackAt(2) /\ calls[2].seen
    /\ calls[3].regime = "FLAT" /\ ~calls[3].seen
    /\ calls[4].regime = "UP" /\ ~PriceBelowMA(4) /\ calls[4].ret = <<>>

\* C17: no call both sets the pullback-seen flag and emits a signal: a call
\* in regime UP with price < MA sets the flag and emits nothing; LONG is
\* emitted only by a call that found the flag true and has price >= MA, and
\* it leaves the flag false; two consecutive calls never both emit.
C17_NoSetAndFire ==
    pc = "signal" =>
        \A i \in 1..Len(calls) :
            /\ calls[i].ret # <<>> => ~calls[i].seen
            /\ (WindowFull(i) /\ calls[i].regime = "UP" /\ PriceBelowMA(i)) =>
                   (calls[i].seen /\ calls[i].ret = <<>>)
            /\ calls[i].ret = <<"LONG">> =>
                   (SeenBefore(i) /\ WindowFull(i) /\ ~PriceBelowMA(i))
            /\ (i > 1 /\ calls[i - 1].ret # <<>>) => calls[i].ret = <<>>

\* C17 witness: in regime UP one call set the flag on a pullback and the
\* next emitted LONG and cleared it; the call after that, again at or above
\* the MA, emitted nothing.
C17_Witness ==
    /\ pc = "signal" /\ Len(calls) = 4 /\ signal.lookback = 2
    /\ calls[2].regime = "UP" /\ calls[2].seen /\ calls[2].ret = <<>>
    /\ calls[3].ret = <<"LONG">> /\ ~calls[3].seen
    /\ calls[4].regime = "UP" /\ ~PriceBelowMA(4) /\ calls[4].ret = <<>>

\* C18 (as claimed): SHORT is emitted only by a call with price <= MA that
\* follows a call with regime DOWN and price > MA, with no FLAT call and no
\* emitted signal in between; LONG only by a call with price >= MA that
\* follows a call with regime UP and price < MA in the same way.
C18_SignalMatchesPullbackRegime ==
    pc = "signal" =>
        \A i \in 1..Len(calls) :
            /\ calls[i].ret = <<"SHORT">> =>
                   /\ ~PriceAboveMA(i)
                   /\ \E k \in 1..(i - 1) :
                          /\ WindowFull(k)
                          /\ calls[k].regime = "DOWN" /\ PriceAboveMA(k)
                          /\ \A j \in (k + 1)..(i - 1) :
                                 calls[j].regime # "FLAT" /\ calls[j].ret = <<>>
            /\ calls[i].ret = <<"LONG">> =>
                   /\ ~PriceBelowMA(i)
                   /\ \E k \in 1..(i - 1) :
                          /\ WindowFull(k)
                          /\ calls[k].regime = "UP" /\ PriceBelowMA(k)
                          /\ \A j \in (k + 1)..(i - 1) :
                                 calls[j].regime # "FLAT" /\ calls[j].ret = <<>>

(***************************************************************************)
(* Properties of tick aggregation, stated on the rows read so far.         *)
(***************************************************************************)
\* The row has no timestamp (no column, None or blank); its timestamp is
\* there but does not parse; it has no parseable price; it has no parseable
\* quantity.
TsAbsent(r) == r.ts = <<>> \/ r.ts[1].kind = "blank"
TsUnparseable(r) == ~TsAbsent(r) /\ r.ts[1].kind \notin {"digits", "iso"}
LacksPrice(r) == r.price = <<>> \/ r.price[1].kind # "num"
LacksQty(r) == r.qty = <<>> \/ r.qty[1].kind # "num"

\* A valid tick: a row with a parseable timestamp and a parseable price.
ValidTick(r) == ~TsAbsent(r) /\ ~TsUnparseable(r) /\ ~LacksPrice(r)

\* The floored-minute bucket, the price and the quantity of a valid tick.
TickOfRow(r) ==
    LET e == ToEpochSeconds(r.ts[1]).v
    IN  [m |-> 60 * (e \div 60), price |-> r.price[1].v,
         q |-> IF LacksQty(r) THEN RZero ELSE r.qty[1].v]

\* The maximal runs of consecutive valid ticks of one bucket in rows 1..n.
RECURSIVE RunsOf(_)
RunsOf(n) ==
    IF n = 0 THEN <<>>
    ELSE LET before == RunsOf(n - 1)
             r == rows_read[n]
         IN  IF ~ValidTick(r) THEN before
             ELSE IF before # <<>> /\ before[Len(before)][1].m = TickOfRow(r).m
                  THEN [before EXCEPT ![Len(before)] = Append(@, TickOfRow(r))]
                  ELSE Append(before, <<TickOfRow(r)>>)

\* The bar of a run: first, highest, lowest and last price, summed quantity.
BarOfRun(run) ==
    LET prices == {run[i].price : i \in 1..Len(run)}
    IN  [timestamp |-> run[1].m,
         open |-> run[1].price,
         high |-> CHOOSE x \in prices : \A y \in prices : RGe(x, y),
         low |-> CHOOSE x \in prices : \A y \in prices : RLe(x, y),
         close |-> run[Len(run)].price,
         volume |-> RSum([i \in 1..Len(run) |-> run[i].q])]

ExpectedBars ==
    LET runs == RunsOf(Len(rows_read))
    IN  [i \in 1..Len(runs) |-> BarOfRun(runs[i])]

\* Bars are yielded in file order, one per run, the last run at end of file.
RunsYielded ==
    /\ pc = "ticks" =>
           yielded = SubSeq(ExpectedBars, 1, Len(ExpectedBars) - 1)
    /\ pc = "eof" => yielded = ExpectedBars

KeptWithZeroQty(r) ==
    /\ err' = "" /\ cur_min' # <<>>
    /\ acc'.c = <<r.price[1].v>>
    /\ acc'.vol = IF cur_min' = cur_min THEN acc.vol ELSE RZero

\* What a skipped row leaves behind: nothing.
Skipped ==
    err' = "" /\ pc' = "ticks" /\ UNCHANGED <<cur_min, acc, yielded>>

\* C20 (as claimed): a row without a parseable timestamp or without a
\* parseable price is skipped without error and changes neither the current
\* bucket nor the accumulator; a row with an absent or unparseable quantity
\* is kept with quantity 0.
C20_BadRowsSkipped ==
    [][(pc = "ticks" /\ rows_read' # rows_read) =>
          LET r == rows_read'[Len(rows_read')]
          IN  /\ (TsAbsent(r) \/ TsUnparseable(r) \/ LacksPrice(r)) => Skipped
              /\ (ValidTick(r) /\ LacksQty(r)) => KeptWithZeroQty(r)]_vars

\* C20 (amended): a row whose timestamp is absent or blank, or whose
\* timestamp parses and whose price is absent, blank or unparseable, is
\* skipped without error and changes neither the current bucket nor the
\* accumulator; a row whose timestamp is present but unparseable ends the
\* aggregation with ValueError, also leaving bucket, accumulator and yielded
\* bars as they were; a row with an absent or unparseable quantity is kept
\* with quantity 0.
C20_RowsSkippedOrRejected ==
    [][(pc = "ticks" /\ rows_read' # rows_read) =>
          LET r == rows_read'[Len(rows_read')]
          IN  /\ TsAbsent(r) => Skipped
              /\ (~TsAbsent(r) /\ ~TsUnparseable(r) /\ LacksPrice(r)) => Skipped
              /\ TsUnparseable(r) =>
                     /\ err' = "ValueError" /\ pc' = "raised"
                     /\ UNCHANGED <<cur_min, acc, yielded>>
              /\ (ValidTick(r) /\ LacksQty(r)) => KeptWithZeroQty(r)]_vars

\* C20 witness: between two ticks of one minute a row with an unparseable
\* price was skipped and a tick with an unparseable quantity was kept: the
\* single bar closes at that tick's price with the volume of the first tick.
C20_Witness ==
    /\ pc = "eof" /\ Len(rows_read) = 3 /\ Len(yielded) = 1
    /\ ValidTick(rows_read[1]) /\ ~LacksQty(rows_read[1])
    /\ rows_read[2].price = <<BadString>>
    /\ ValidTick(rows_read[3]) /\ rows_read[3].qty = <<BadString>>
    /\ yielded[1].volume = rows_read[1].qty[1].v
    /\ yielded[1].close = rows_read[3].price[1].v
    /\ yielded[1].open # yielded[1].close

(***************************************************************************)
(* Properties of the walk-forward windows.                                 *)
(***************************************************************************)
\* train, test and step all positive and step <= test.
WfValidSpec(spec) ==
    /\ spec.train_months > 0 /\ spec.test_months > 0 /\ spec.step_months > 0
    /\ spec.step_months <= spec.test_months

\* C22: for a WFSpec with train, test and step positive and step <= test,
\* every window built has train_end = train_start + train_months,
\* test_start = train_end, test_end = train_end + test_months and test_end
\* not after the end of the last month, consecutive train_starts differ by
\* step_months, and the loop ends: i = step_months * (windows built) stays
\* below the number of months while the loop runs, so there are never more
\* windows than months.
C22_WindowsValid ==
    (pc \in {"wf_loop", "wf_returned"} /\ WfValidSpec(wf.spec[1])) =>
        /\ \A k \in 1..Len(wf.windows) :
              LET w == wf.windows[k]
              IN  /\ w[2] = w[1] + wf.spec[1].train_months
                  /\ w[3] = w[2]
                  /\ w[4] = w[2] + wf.spec[1].test_months
                  /\ w[4] <= wf.months[Len(wf.months)][2]
        /\ \A k \in 1..(Len(wf.windows) - 1) :
              wf.windows[k + 1][1] - wf.windows[k][1] = wf.spec[1].step_months
        /\ Len(wf.windows) <= Len(wf.months)
        /\ pc = "wf_loop" =>
              /\ wf.i = wf.spec[1].step_months * Len(wf.windows)
              /\ wf.i < Len(wf.months)

\* build_wf_windows returned two or more windows for a spec that steps by
\* two months.
C22_Witness ==
    /\ pc = "wf_returned"
    /\ WfValidSpec(wf.spec[1])
    /\ wf.spec[1].step_months = 2
    /\ Len(wf.windows) >= 2

\* The parts of s that give key k.
WfGiven(s, k) == {j \in 1..Len(s) : s[j].eq /\ s[j].key = k}

\* The value s gives for key k (the last one, as in a dict).
WfValue(s, k) == s[CHOOSE j \in WfGiven(s, k) : \A m \in WfGiven(s, k) : m <= j].val

\* Every part is key=value, train, test and step are given, their values
\* are positive integers and step <= test.
WfWellFormed(s) ==
    /\ \A j \in 1..Len(s) : s[j].eq
    /\ \A k \in {"train", "test", "step"} :
          /\ WfGiven(s, k) # {}
          /\ WfValue(s, k).kind = "int"
          /\ WfValue(s, k).v > 0
    /\ WfValue(s, "step").v <= WfValue(s, "test").v

\* C23: parse_wf returns the WFSpec with the given train, test and step for
\* a well-formed argument whose values are positive integers with
\* step <= test; for any other argument it raises ValueError (which main
\* turns into SystemExit) and no spec is returned.
C23_ParseWf ==
    (pc \in {"wf_build", "wf_loop", "wf_returned", "raised"} /\ wf.s # <<>>) =>
        IF WfWellFormed(wf.s[1])
        THEN /\ err = "" /\ pc # "raised"
             /\ wf.spec = <<WFSpec(WfValue(wf.s[1], "train").v,
                                   WfValue(wf.s[1], "test").v,
                                   WfValue(wf.s[1], "step").v)>>
        ELSE pc = "raised" /\ err = "SystemExit" /\ wf.spec = <<>>

\* parse_wf returned a spec whose step equals its test span.
C23_Witness ==
    /\ pc = "wf_build" /\ wf.s # <<>>
    /\ wf.spec # <<>>
    /\ wf.spec[1].step_months = 2 /\ wf.spec[1].test_months = 2
    /\ Len(wf.s[1]) = 3

(***************************************************************************)
(* Properties of the bar stream of a symbol.                               *)
(***************************************************************************)
\* Row r has a timestamp that parses; the epoch second and the minute it
\* gives.
RowHasTime(r) == r.ts # <<>> /\ r.ts[1].kind \in {"digits", "iso"}
RowEpoch(r) == ToEpochSeconds(r.ts[1]).v
RowMinute(r) == 60 * (RowEpoch(r) \div 60)

\* The rows read from file f are time-ordered.
TimeOrdered(f) ==
    \A j, k \in 1..Len(f.rows) :
        (j < k /\ RowHasTime(f.rows[j]) /\ RowHasTime(f.rows[k])) =>
            RowEpoch(f.rows[j]) <= RowEpoch(f.rows[k])

\* An OHLCV file holds at most one row per minute.
OneRowPerMinute(f) ==
    f.schema = "ohlcv" =>
        \A j, k \in 1..Len(f.rows) :
            (j < k /\ RowHasTime(f.rows[j]) /\ RowHasTime(f.rows[k])) =>
                RowMinute(f.rows[j]) # RowMinute(f.rows[k])

\* Every row of a file lies in a later minute than every row of the files
\* before it in filename order.
FilesInTimeOrder ==
    \A i, j \in 1..Len(files) :
        i < j =>
            \A a \in 1..Len(files[i].rows), b \in 1..Len(files[j].rows) :
                (RowHasTime(files[i].rows[a]) /\ RowHasTime(files[j].rows[b])) =>
                    RowMinute(files[i].rows[a]) < RowMinute(files[j].rows[b])

\* No two bars yielded carry the same minute and none is earlier than its
\* predecessor.
StreamIncreasing ==
    \A k \in 1..(Len(stream) - 1) : stream[k].timestamp < stream[k + 1].timestamp

\* C21 (as claimed): when the rows of every file are time-ordered, the bars
\* iter_symbol_bars yields have strictly increasing timestamps.
C21_StreamStrictlyIncreasing ==
    (\A i \in 1..Len(files) : TimeOrdered(files[i])) => StreamIncreasing

\* C21 (amended): when the rows of every file are time-ordered, no OHLCV
\* file holds two rows of one minute and every file starts in a later
\* minute than the file before it ended in, the bars iter_symbol_bars
\* yields have strictly increasing timestamps.
C21_StreamIncreasingForMinuteFiles ==
    (/\ \A i \in 1..Len(files) : TimeOrdered(files[i]) /\ OneRowPerMinute(files[i])
     /\ FilesInTimeOrder) => StreamIncreasing

\* A tick file with two ticks of one minute and then an OHLCV file with a
\* row of the next minute were read to the end, and both bars were yielded.
C21_Witness ==
    /\ pc = "exhausted" /\ Len(files) = 2
    /\ files[1].schema = "ticks" /\ Len(files[1].rows) = 2
    /\ files[2].schema = "ohlcv" /\ Len(files[2].rows) = 1
    /\ \A i \in 1..2 : TimeOrdered(files[i]) /\ OneRowPerMinute(files[i])
    /\ FilesInTimeOrder
    /\ Len(stream) = 2

====
